---------------------------- MODULE Spec2Model ----------------------------
(***************************************************************************)
(* Model of the 8080 core of inv8080rs (src/src/cpu.rs): the Cpu value,    *)
(* its private "micro-code", fetch_and_decode, execute, step and           *)
(* interrupt.                                                              *)
(*                                                                         *)
(* A Cpu value is a record.  Every operation of the source that takes      *)
(* &mut self is an operator from a record to a record; a panic of the      *)
(* source sets the field panic and every later operation leaves a          *)
(* panicked record alone, so nesting operators reproduces the sequential   *)
(* order of the statements and stops at the first panic.                   *)
(*                                                                         *)
(* The field debug is the build profile: TRUE when debug_assert! and the   *)
(* integer overflow checks are compiled in (cargo build / cargo test),     *)
(* FALSE when they are compiled out (cargo build --release).               *)
(*                                                                         *)
(* memory is [u8; MEMORY_SIZE] in the source.  It is held here as the      *)
(* function from the addresses whose byte is not zero to that byte, which  *)
(* is the same value in a canonical sparse form.                           *)
(***************************************************************************)
EXTENDS Integers, Sequences, FiniteSets, TLC

---------------------------------------------------------------------------
(* Memory map and sizes.                                                   *)

MEMORY_SIZE == 16384
NREGS == 8
NPORTS == 8

MEMORY == 0 .. (MEMORY_SIZE - 1)
ROM == 0 .. 8191
RAM == 8192 .. 16383
STACK == 8960 .. 9216
FRAMEBUFFER == 9216 .. 16383

---------------------------------------------------------------------------
(* Registers, register pairs, conditions (the enum discriminants).         *)

B == 0
C == 1
D == 2
E == 3
H == 4
L == 5
F == 6
A == 7

BC == 0
DE == 1
HL == 2
SP == 3

NotZero == 0
Zero == 1
NoCarry == 2
Carry == 3
ParityOdd == 4
ParityEven == 5
Plus == 6
Minus == 7

---------------------------------------------------------------------------
(* Bit arithmetic on u8 / u16 values.                                      *)

Pow2(n) == CASE n = 0 -> 1 [] n = 1 -> 2 [] n = 2 -> 4 [] n = 3 -> 8
             [] n = 4 -> 16 [] n = 5 -> 32 [] n = 6 -> 64 [] n = 7 -> 128
             [] n = 8 -> 256 [] n = 9 -> 512 [] n = 10 -> 1024
             [] n = 11 -> 2048 [] n = 12 -> 4096 [] n = 13 -> 8192
             [] n = 14 -> 16384 [] n = 15 -> 32768 [] n = 16 -> 65536

RECURSIVE BitAnd(_, _)
BitAnd(a, b) ==
    IF a = 0 \/ b = 0 THEN 0
    ELSE (a % 2) * (b % 2) + 2 * BitAnd(a \div 2, b \div 2)

RECURSIVE BitOr(_, _)
BitOr(a, b) ==
    IF a = 0 THEN b
    ELSE IF b = 0 THEN a
    ELSE (IF a % 2 = 1 \/ b % 2 = 1 THEN 1 ELSE 0) + 2 * BitOr(a \div 2, b \div 2)

RECURSIVE BitXor(_, _)
BitXor(a, b) ==
    IF a = 0 THEN b
    ELSE IF b = 0 THEN a
    ELSE ((a + b) % 2) + 2 * BitXor(a \div 2, b \div 2)

RECURSIVE count_ones(_)
count_ones(v) == IF v = 0 THEN 0 ELSE (v % 2) + count_ones(v \div 2)

get_bit(val, n) == BitAnd(val, Pow2(n)) # 0

set_bit(value, n, val) ==
    IF val THEN BitOr(value, Pow2(n))
    ELSE BitAnd(value, 255 - Pow2(n))

---------------------------------------------------------------------------
(* The Cpu value.                                                          *)

Panic(s) == [s EXCEPT !.panic = TRUE]

new_gate_open(program, build) ==
    [ memory         |-> [a \in {i - 1 : i \in {j \in 1 .. Len(program) : program[j] # 0}}
                            |-> program[a + 1]],
      pc             |-> 0,
      registers      |-> [r \in 0 .. (NREGS - 1) |-> 0],
      sp             |-> 0,
      bus_in         |-> [p \in 0 .. (NPORTS - 1) |->
                            IF p = 0 THEN 14 ELSE IF p = 1 THEN 8 ELSE 0],
      bus_out        |-> [p \in 0 .. (NPORTS - 1) |-> 0],
      shift          |-> 0,
      offset         |-> 0,
      interruptable  |-> TRUE,
      display_update |-> TRUE,
      panic          |-> Len(program) > MEMORY_SIZE,
      debug          |-> build ]

new(program, build) ==
    [ memory         |-> [a \in {i - 1 : i \in {j \in 1 .. Len(program) : program[j] # 0}}
                            |-> program[a + 1]],
      pc             |-> 0,
      registers      |-> [r \in 0 .. (NREGS - 1) |-> 0],
      sp             |-> 0,
      bus_in         |-> [p \in 0 .. (NPORTS - 1) |->
                            IF p = 0 THEN 14 ELSE IF p = 1 THEN 8 ELSE 0],
      bus_out        |-> [p \in 0 .. (NPORTS - 1) |-> 0],
      shift          |-> 0,
      offset         |-> 0,
      interruptable  |-> FALSE,
      display_update |-> TRUE,
      panic          |-> Len(program) > MEMORY_SIZE,
      debug          |-> build ]

---------------------------------------------------------------------------
(* CPU "micro-code".                                                       *)

get_pc(s) == s.pc

set_pc_unchecked(s, pc) ==
    IF s.panic THEN s ELSE [s EXCEPT !.pc = pc]

set_pc(s, pc) ==
    IF s.panic THEN s
    ELSE IF s.debug /\ pc \notin ROM THEN Panic(s)
    ELSE [s EXCEPT !.pc = pc]

incr_pc(s) == set_pc(s, get_pc(s) + 1)

get_sp(s) == s.sp

set_sp_unchecked(s, sp) ==
    IF s.panic THEN s ELSE [s EXCEPT !.sp = sp]

set_sp(s, sp) ==
    IF s.panic THEN s
    ELSE IF s.debug /\ sp \notin STACK THEN Panic(s)
    ELSE [s EXCEPT !.sp = sp]

(* self.memory[addr] panics outside the array in every build, and the      *)
(* debug_assert! on MEMORY states the same range.                           *)
MemOk_mirrored(addr) == addr % MEMORY_SIZE \in MEMORY

MemOk(addr) == addr \in MEMORY

get_memory(s, addr) == IF addr \in DOMAIN s.memory THEN s.memory[addr] ELSE 0

Store(m, addr, data) ==
    IF data = 0
    THEN [a \in DOMAIN m \ {addr} |-> m[a]]
    ELSE [a \in DOMAIN m \cup {addr} |-> IF a = addr THEN data ELSE m[a]]

set_memory_any_write_dirty(s, addr, data) ==
    IF s.panic THEN s
    ELSE IF (s.debug /\ addr \notin RAM) \/ ~MemOk(addr) THEN Panic(s)
    ELSE [s EXCEPT !.memory = Store(@, addr, data), !.display_update = TRUE]

set_memory_rom_writable(s, addr, data) ==
    IF s.panic THEN s
    ELSE IF ~MemOk(addr) THEN Panic(s)
    ELSE [s EXCEPT !.memory = Store(@, addr, data),
                   !.display_update = IF addr \in FRAMEBUFFER THEN TRUE ELSE @]

set_memory(s, addr, data) ==
    IF s.panic THEN s
    ELSE IF (s.debug /\ addr \notin RAM) \/ ~MemOk(addr) THEN Panic(s)
    ELSE [s EXCEPT !.memory = Store(@, addr, data),
                   !.display_update = IF addr \in FRAMEBUFFER THEN TRUE ELSE @]

get_register(s, r) == s.registers[r]

set_register(s, r, data) ==
    IF s.panic THEN s ELSE [s EXCEPT !.registers[r] = data]

FlagBit(flag) ==
    CASE flag = "CY" -> 0
      [] flag = "P"  -> 2
      [] flag = "AC" -> 4
      [] flag = "Z"  -> 6
      [] flag = "S"  -> 7

get_flag(s, flag) == get_bit(get_register(s, F), FlagBit(flag))

set_flag(s, flag, val) ==
    set_register(s, F, set_bit(get_register(s, F), FlagBit(flag), val))

get_flags(s) == get_register(s, F)

set_flags_normalised(s, flags) ==
    set_register(s, F, set_bit(set_bit(set_bit(flags, 1, TRUE), 3, FALSE), 5, FALSE))

set_flags(s, flags) == set_register(s, F, flags)

set_flags_for_arithmetic_odd_parity(s, before, after, carry) ==
    LET s1 == set_flag(s, "Z", after = 0)
        s2 == set_flag(s1, "S", BitAnd(after, 128) = 128)
        s3 == set_flag(s2, "P", count_ones(after) % 2 = 1)
        s4 == set_flag(s3, "CY", carry)
    IN  set_flag(s4, "AC",
                 BitAnd(before, 8 \div 8) = 1 /\ BitAnd(after, 16 \div 16) = 1)

set_flags_for_arithmetic_toggles_carry(s, before, after, carry) ==
    LET s1 == set_flag(s, "Z", after = 0)
        s2 == set_flag(s1, "S", BitAnd(after, 128) = 128)
        s3 == set_flag(s2, "P", count_ones(after) % 2 = 0)
        s4 == set_flag(s3, "CY", carry # get_flag(s3, "CY"))
    IN  set_flag(s4, "AC",
                 BitAnd(before, 8 \div 8) = 1 /\ BitAnd(after, 16 \div 16) = 1)

set_flags_for_arithmetic(s, before, after, carry) ==
    LET s1 == set_flag(s, "Z", after = 0)
        s2 == set_flag(s1, "S", BitAnd(after, 128) = 128)
        s3 == set_flag(s2, "P", count_ones(after) % 2 = 0)
        s4 == set_flag(s3, "CY", carry)
    IN  set_flag(s4, "AC",
                 BitAnd(before, 8 \div 8) = 1 /\ BitAnd(after, 16 \div 16) = 1)

add(s, addend) ==
    LET acc    == get_register(s, A)
        s1     == set_flag(s, "AC", BitAnd(acc, 15) + BitAnd(addend, 15) > 15)
        result == (acc + addend) % 256
        carry  == acc + addend > 255
        s2     == set_register(s1, A, result)
        s3     == set_flag(s2, "CY", carry)
        s4     == set_flag(s3, "Z", result = 0)
        s5     == set_flag(s4, "S", BitAnd(result, 128) = 128)
    IN  set_flag(s5, "P", count_ones(result) % 2 = 0)

set_register_pair_low_byte_first(s, rp, data) ==
    IF s.panic THEN s
    ELSE IF rp = SP THEN set_sp(s, data)
    ELSE [s EXCEPT !.registers[rp * 2]     = BitAnd(data, 255),
                   !.registers[rp * 2 + 1] = BitAnd(data, 65280) \div 256]

set_register_pair(s, rp, data) ==
    IF s.panic THEN s
    ELSE IF rp = SP THEN set_sp(s, data)
    ELSE [s EXCEPT !.registers[rp * 2]     = BitAnd(data, 65280) \div 256,
                   !.registers[rp * 2 + 1] = BitAnd(data, 255)]

get_register_pair(s, rp) ==
    IF rp = SP THEN get_sp(s) % 65536
    ELSE s.registers[rp * 2] * 256 + s.registers[rp * 2 + 1]

is_condition_parity_swapped(s, c) ==
    CASE c = NotZero    -> ~get_flag(s, "Z")
      [] c = Zero       -> get_flag(s, "Z")
      [] c = NoCarry    -> ~get_flag(s, "CY")
      [] c = Carry      -> get_flag(s, "CY")
      [] c = ParityOdd  -> get_flag(s, "P")
      [] c = ParityEven -> ~get_flag(s, "P")
      [] c = Plus       -> ~get_flag(s, "S")
      [] c = Minus      -> get_flag(s, "S")

is_condition(s, c) ==
    CASE c = NotZero    -> ~get_flag(s, "Z")
      [] c = Zero       -> get_flag(s, "Z")
      [] c = NoCarry    -> ~get_flag(s, "CY")
      [] c = Carry      -> get_flag(s, "CY")
      [] c = ParityOdd  -> ~get_flag(s, "P")
      [] c = ParityEven -> get_flag(s, "P")
      [] c = Plus       -> ~get_flag(s, "S")
      [] c = Minus      -> get_flag(s, "S")

(* get_sp() - 1 on sp = 0: the subtraction panics when overflow checks are *)
(* on, and otherwise wraps to usize::MAX, where the indexing of memory in  *)
(* set_memory panics.                                                      *)
push_data(s, data) ==
    IF s.panic THEN s
    ELSE IF get_sp(s) = 0 THEN Panic(s)
    ELSE LET s1 == set_sp(s, get_sp(s) - 1)
         IN  set_memory(s1, get_sp(s1), data)

push_low_first(s, data) ==
    push_data(push_data(s, BitAnd(data, 255)), BitAnd(data, 65280) \div 256)

push(s, data) ==
    push_data(push_data(s, BitAnd(data, 65280) \div 256), BitAnd(data, 255))

peek_data(s) ==
    IF s.panic THEN [st |-> s, val |-> 0]
    ELSE IF ~MemOk(get_sp(s)) THEN [st |-> Panic(s), val |-> 0]
    ELSE [st |-> s, val |-> get_memory(s, get_sp(s))]

peek(s) ==
    IF s.panic THEN [st |-> s, val |-> 0]
    ELSE IF ~MemOk(get_sp(s)) \/ ~MemOk(get_sp(s) + 1) THEN [st |-> Panic(s), val |-> 0]
    ELSE [st |-> s,
          val |-> BitOr(get_memory(s, get_sp(s)), get_memory(s, get_sp(s) + 1) * 256)]

pop(s) ==
    LET p == peek(s)
    IN  [st |-> set_sp(p.st, get_sp(p.st) + 2), val |-> p.val]

pop_data(s) ==
    LET p == peek_data(s)
    IN  [st |-> set_sp(p.st, get_sp(p.st) + 1), val |-> p.val]

---------------------------------------------------------------------------
(* Instructions: the enum Instruction as a record of the variant's name    *)
(* and its (at most two) fields, 0 where the variant has fewer.            *)

I(name, x, y) == [name |-> name, x |-> x, y |-> y]

NoInstruction == I("", 0, 0)

(* A fetch returns the value read and the Cpu after the fetch.             *)
Fetched(s, val) == [st |-> s, val |-> val]

fetch_data_from_sp(s) ==
    IF s.panic THEN Fetched(s, 0)
    ELSE IF ~MemOk(get_pc(s)) THEN Fetched(Panic(s), 0)
    ELSE Fetched([s EXCEPT !.sp = get_sp(s) + 1], get_memory(s, get_pc(s)))

fetch_data(s) ==
    IF s.panic THEN Fetched(s, 0)
    ELSE IF ~MemOk(get_pc(s)) THEN Fetched(Panic(s), 0)
    ELSE Fetched(incr_pc(s), get_memory(s, get_pc(s)))

fetch_data16_big_endian(s) ==
    LET high == fetch_data(s)
        low  == fetch_data(high.st)
    IN  Fetched(low.st, BitOr(high.val * 256, low.val))

fetch_data16(s) ==
    LET low  == fetch_data(s)
        high == fetch_data(low.st)
    IN  Fetched(high.st, BitOr(high.val * 256, low.val))

fetch_address(s) == fetch_data16(s)

(* The result of fetch_and_decode: the instruction and the Cpu after it.   *)
Decoded(s, instr) == [st |-> s, instr |-> IF s.panic THEN NoInstruction ELSE instr]

Operand1(name, f) == Decoded(f.st, I(name, f.val, 0))

Operand2(name, x, f) == Decoded(f.st, I(name, x, f.val))

(* The match of fetch_and_decode on the opcode, s being the Cpu after the  *)
(* opcode byte was consumed.                                               *)
decode(s, op) ==
    CASE
         op = \b01000000 -> Decoded(s, I("MoveRegister", B, B))
      [] op = \b01000001 -> Decoded(s, I("MoveRegister", B, C))
      [] op = \b01000010 -> Decoded(s, I("MoveRegister", B, D))
      [] op = \b01000011 -> Decoded(s, I("MoveRegister", B, E))
      [] op = \b01000100 -> Decoded(s, I("MoveRegister", B, H))
      [] op = \b01000101 -> Decoded(s, I("MoveRegister", B, L))
      [] op = \b01000111 -> Decoded(s, I("MoveRegister", B, A))
      [] op = \b01001000 -> Decoded(s, I("MoveRegister", C, B))
      [] op = \b01001001 -> Decoded(s, I("MoveRegister", C, C))
      [] op = \b01001010 -> Decoded(s, I("MoveRegister", C, D))
      [] op = \b01001011 -> Decoded(s, I("MoveRegister", C, E))
      [] op = \b01001100 -> Decoded(s, I("MoveRegister", C, H))
      [] op = \b01001101 -> Decoded(s, I("MoveRegister", C, L))
      [] op = \b01001111 -> Decoded(s, I("MoveRegister", C, A))
      [] op = \b01010000 -> Decoded(s, I("MoveRegister", D, B))
      [] op = \b01010001 -> Decoded(s, I("MoveRegister", D, C))
      [] op = \b01010010 -> Decoded(s, I("MoveRegister", D, D))
      [] op = \b01010011 -> Decoded(s, I("MoveRegister", D, E))
      [] op = \b01010100 -> Decoded(s, I("MoveRegister", D, H))
      [] op = \b01010101 -> Decoded(s, I("MoveRegister", D, L))
      [] op = \b01010111 -> Decoded(s, I("MoveRegister", D, A))
      [] op = \b01011000 -> Decoded(s, I("MoveRegister", E, B))
      [] op = \b01011001 -> Decoded(s, I("MoveRegister", E, C))
      [] op = \b01011010 -> Decoded(s, I("MoveRegister", E, D))
      [] op = \b01011011 -> Decoded(s, I("MoveRegister", E, E))
      [] op = \b01011100 -> Decoded(s, I("MoveRegister", E, H))
      [] op = \b01011101 -> Decoded(s, I("MoveRegister", E, L))
      [] op = \b01011111 -> Decoded(s, I("MoveRegister", E, A))
      [] op = \b01100000 -> Decoded(s, I("MoveRegister", H, B))
      [] op = \b01100001 -> Decoded(s, I("MoveRegister", H, C))
      [] op = \b01100010 -> Decoded(s, I("MoveRegister", H, D))
      [] op = \b01100011 -> Decoded(s, I("MoveRegister", H, E))
      [] op = \b01100100 -> Decoded(s, I("MoveRegister", H, H))
      [] op = \b01100101 -> Decoded(s, I("MoveRegister", H, L))
      [] op = \b01100111 -> Decoded(s, I("MoveRegister", H, A))
      [] op = \b01101000 -> Decoded(s, I("MoveRegister", L, B))
      [] op = \b01101001 -> Decoded(s, I("MoveRegister", L, C))
      [] op = \b01101010 -> Decoded(s, I("MoveRegister", L, D))
      [] op = \b01101011 -> Decoded(s, I("MoveRegister", L, E))
      [] op = \b01101100 -> Decoded(s, I("MoveRegister", L, H))
      [] op = \b01101101 -> Decoded(s, I("MoveRegister", L, L))
      [] op = \b01101111 -> Decoded(s, I("MoveRegister", L, A))
      [] op = \b01111000 -> Decoded(s, I("MoveRegister", A, B))
      [] op = \b01111001 -> Decoded(s, I("MoveRegister", A, C))
      [] op = \b01111010 -> Decoded(s, I("MoveRegister", A, D))
      [] op = \b01111011 -> Decoded(s, I("MoveRegister", A, E))
      [] op = \b01111100 -> Decoded(s, I("MoveRegister", A, H))
      [] op = \b01111101 -> Decoded(s, I("MoveRegister", A, L))
      [] op = \b01111111 -> Decoded(s, I("MoveRegister", A, A))
      [] op = \b01000110 -> Decoded(s, I("MoveFromMemory", B, 0))
      [] op = \b01001110 -> Decoded(s, I("MoveFromMemory", C, 0))
      [] op = \b01010110 -> Decoded(s, I("MoveFromMemory", D, 0))
      [] op = \b01011110 -> Decoded(s, I("MoveFromMemory", E, 0))
      [] op = \b01100110 -> Decoded(s, I("MoveFromMemory", H, 0))
      [] op = \b01101110 -> Decoded(s, I("MoveFromMemory", L, 0))
      [] op = \b01111110 -> Decoded(s, I("MoveFromMemory", A, 0))
      [] op = \b01110000 -> Decoded(s, I("MoveToMemory", B, 0))
      [] op = \b01110001 -> Decoded(s, I("MoveToMemory", C, 0))
      [] op = \b01110010 -> Decoded(s, I("MoveToMemory", D, 0))
      [] op = \b01110011 -> Decoded(s, I("MoveToMemory", E, 0))
      [] op = \b01110100 -> Decoded(s, I("MoveToMemory", H, 0))
      [] op = \b01110101 -> Decoded(s, I("MoveToMemory", L, 0))
      [] op = \b01110111 -> Decoded(s, I("MoveToMemory", A, 0))
      [] op = \b00000110 -> Operand2("MoveImmediate", B, fetch_data(s))
      [] op = \b00001110 -> Operand2("MoveImmediate", C, fetch_data(s))
      [] op = \b00010110 -> Operand2("MoveImmediate", D, fetch_data(s))
      [] op = \b00011110 -> Operand2("MoveImmediate", E, fetch_data(s))
      [] op = \b00100110 -> Operand2("MoveImmediate", H, fetch_data(s))
      [] op = \b00101110 -> Operand2("MoveImmediate", L, fetch_data(s))
      [] op = \b00111110 -> Operand2("MoveImmediate", A, fetch_data(s))
      [] op = \b00110110 -> Operand1("MoveToMemoryImmediate", fetch_data(s))
      [] op = \b00000001 -> Operand2("LoadRegisterPairImmediate", BC, fetch_data16(s))
      [] op = \b00010001 -> Operand2("LoadRegisterPairImmediate", DE, fetch_data16(s))
      [] op = \b00100001 -> Operand2("LoadRegisterPairImmediate", HL, fetch_data16(s))
      [] op = \b00110001 -> Operand2("LoadRegisterPairImmediate", SP, fetch_data16(s))
      [] op = \b00111010 -> Operand1("LoadAccumulatorDirect", fetch_address(s))
      [] op = \b00110010 -> Operand1("StoreAccumulatorDirect", fetch_address(s))
      [] op = \b00101010 -> Operand1("LoadHLDirect", fetch_address(s))
      [] op = \b00100010 -> Operand1("StoreHLDirect", fetch_address(s))
      [] op = \b00001010 -> Decoded(s, I("LoadAccumulatorIndirect", BC, 0))
      [] op = \b00011010 -> Decoded(s, I("LoadAccumulatorIndirect", DE, 0))
      [] op = \b00000010 -> Decoded(s, I("StoreAccumulatorIndirect", BC, 0))
      [] op = \b00010010 -> Decoded(s, I("StoreAccumulatorIndirect", DE, 0))
      [] op = \b11101011 -> Decoded(s, I("ExchangeHLWithDE", 0, 0))
      [] op = \b10000000 -> Decoded(s, I("AddRegister", B, 0))
      [] op = \b10000001 -> Decoded(s, I("AddRegister", C, 0))
      [] op = \b10000010 -> Decoded(s, I("AddRegister", D, 0))
      [] op = \b10000011 -> Decoded(s, I("AddRegister", E, 0))
      [] op = \b10000100 -> Decoded(s, I("AddRegister", H, 0))
      [] op = \b10000101 -> Decoded(s, I("AddRegister", L, 0))
      [] op = \b10000111 -> Decoded(s, I("AddRegister", A, 0))
      [] op = \b10000110 -> Decoded(s, I("AddMemory", 0, 0))
      [] op = \b11000110 -> Operand1("AddImmediate", fetch_data(s))
      [] op = \b10001000 -> Decoded(s, I("AddRegisterWithCarry", B, 0))
      [] op = \b10001001 -> Decoded(s, I("AddRegisterWithCarry", C, 0))
      [] op = \b10001010 -> Decoded(s, I("AddRegisterWithCarry", D, 0))
      [] op = \b10001011 -> Decoded(s, I("AddRegisterWithCarry", E, 0))
      [] op = \b10001100 -> Decoded(s, I("AddRegisterWithCarry", H, 0))
      [] op = \b10001101 -> Decoded(s, I("AddRegisterWithCarry", L, 0))
      [] op = \b10001111 -> Decoded(s, I("AddRegisterWithCarry", A, 0))
      [] op = \b10001110 -> Decoded(s, I("AddMemoryWithCarry", 0, 0))
      [] op = \b11001110 -> Operand1("AddImmediateWithCarry", fetch_data(s))
      [] op = \b10010000 -> Decoded(s, I("SubtractRegister", B, 0))
      [] op = \b10010001 -> Decoded(s, I("SubtractRegister", C, 0))
      [] op = \b10010010 -> Decoded(s, I("SubtractRegister", D, 0))
      [] op = \b10010011 -> Decoded(s, I("SubtractRegister", E, 0))
      [] op = \b10010100 -> Decoded(s, I("SubtractRegister", H, 0))
      [] op = \b10010101 -> Decoded(s, I("SubtractRegister", L, 0))
      [] op = \b10010111 -> Decoded(s, I("SubtractRegister", A, 0))
      [] op = \b10010110 -> Decoded(s, I("SubtractMemory", 0, 0))
      [] op = \b11010110 -> Operand1("SubtractImmediate", fetch_data(s))
      [] op = \b10011000 -> Decoded(s, I("SubtractRegisterWithBorrow", B, 0))
      [] op = \b10011001 -> Decoded(s, I("SubtractRegisterWithBorrow", C, 0))
      [] op = \b10011010 -> Decoded(s, I("SubtractRegisterWithBorrow", D, 0))
      [] op = \b10011011 -> Decoded(s, I("SubtractRegisterWithBorrow", E, 0))
      [] op = \b10011100 -> Decoded(s, I("SubtractRegisterWithBorrow", H, 0))
      [] op = \b10011101 -> Decoded(s, I("SubtractRegisterWithBorrow", L, 0))
      [] op = \b10011111 -> Decoded(s, I("SubtractRegisterWithBorrow", A, 0))
      [] op = \b10011110 -> Decoded(s, I("SubtractMemoryWithBorrow", 0, 0))
      [] op = \b11011110 -> Operand1("SubtractImmediateWithBorrow", fetch_data(s))
      [] op = \b00000100 -> Decoded(s, I("IncrementRegister", B, 0))
      [] op = \b00001100 -> Decoded(s, I("IncrementRegister", C, 0))
      [] op = \b00010100 -> Decoded(s, I("IncrementRegister", D, 0))
      [] op = \b00011100 -> Decoded(s, I("IncrementRegister", E, 0))
      [] op = \b00100100 -> Decoded(s, I("IncrementRegister", H, 0))
      [] op = \b00101100 -> Decoded(s, I("IncrementRegister", L, 0))
      [] op = \b00111100 -> Decoded(s, I("IncrementRegister", A, 0))
      [] op = \b00110100 -> Decoded(s, I("IncrementMemory", 0, 0))
      [] op = \b00000101 -> Decoded(s, I("DecrementRegister", B, 0))
      [] op = \b00001101 -> Decoded(s, I("DecrementRegister", C, 0))
      [] op = \b00010101 -> Decoded(s, I("DecrementRegister", D, 0))
      [] op = \b00011101 -> Decoded(s, I("DecrementRegister", E, 0))
      [] op = \b00100101 -> Decoded(s, I("DecrementRegister", H, 0))
      [] op = \b00101101 -> Decoded(s, I("DecrementRegister", L, 0))
      [] op = \b00111101 -> Decoded(s, I("DecrementRegister", A, 0))
      [] op = \b00110101 -> Decoded(s, I("DecrementMemory", 0, 0))
      [] op = \b00000011 -> Decoded(s, I("IncrementRegisterPair", BC, 0))
      [] op = \b00010011 -> Decoded(s, I("IncrementRegisterPair", DE, 0))
      [] op = \b00100011 -> Decoded(s, I("IncrementRegisterPair", HL, 0))
      [] op = \b00110011 -> Decoded(s, I("IncrementRegisterPair", SP, 0))
      [] op = \b00001011 -> Decoded(s, I("DecrementRegisterPair", BC, 0))
      [] op = \b00011011 -> Decoded(s, I("DecrementRegisterPair", DE, 0))
      [] op = \b00101011 -> Decoded(s, I("DecrementRegisterPair", HL, 0))
      [] op = \b00111011 -> Decoded(s, I("DecrementRegisterPair", SP, 0))
      [] op = \b00001001 -> Decoded(s, I("AddRegisterPairToHL", BC, 0))
      [] op = \b00011001 -> Decoded(s, I("AddRegisterPairToHL", DE, 0))
      [] op = \b00101001 -> Decoded(s, I("AddRegisterPairToHL", HL, 0))
      [] op = \b00111001 -> Decoded(s, I("AddRegisterPairToHL", SP, 0))
      [] op = \b00100111 -> Decoded(s, I("DecimalAdjustAccumulator", 0, 0))
      [] op = \b10100000 -> Decoded(s, I("AndRegister", B, 0))
      [] op = \b10100001 -> Decoded(s, I("AndRegister", C, 0))
      [] op = \b10100010 -> Decoded(s, I("AndRegister", D, 0))
      [] op = \b10100011 -> Decoded(s, I("AndRegister", E, 0))
      [] op = \b10100100 -> Decoded(s, I("AndRegister", H, 0))
      [] op = \b10100101 -> Decoded(s, I("AndRegister", L, 0))
      [] op = \b10100111 -> Decoded(s, I("AndRegister", A, 0))
      [] op = \b10100110 -> Decoded(s, I("AndMemory", 0, 0))
      [] op = \b11100110 -> Operand1("AndImmediate", fetch_data(s))
      [] op = \b10101000 -> Decoded(s, I("XorRegister", B, 0))
      [] op = \b10101001 -> Decoded(s, I("XorRegister", C, 0))
      [] op = \b10101010 -> Decoded(s, I("XorRegister", D, 0))
      [] op = \b10101011 -> Decoded(s, I("XorRegister", E, 0))
      [] op = \b10101100 -> Decoded(s, I("XorRegister", H, 0))
      [] op = \b10101101 -> Decoded(s, I("XorRegister", L, 0))
      [] op = \b10101111 -> Decoded(s, I("XorRegister", A, 0))
      [] op = \b10101110 -> Decoded(s, I("XorMemory", 0, 0))
      [] op = \b11101110 -> Operand1("XorImmediate", fetch_data(s))
      [] op = \b10110000 -> Decoded(s, I("OrRegister", B, 0))
      [] op = \b10110001 -> Decoded(s, I("OrRegister", C, 0))
      [] op = \b10110010 -> Decoded(s, I("OrRegister", D, 0))
      [] op = \b10110011 -> Decoded(s, I("OrRegister", E, 0))
      [] op = \b10110100 -> Decoded(s, I("OrRegister", H, 0))
      [] op = \b10110101 -> Decoded(s, I("OrRegister", L, 0))
      [] op = \b10110111 -> Decoded(s, I("OrRegister", A, 0))
      [] op = \b10110110 -> Decoded(s, I("OrMemory", 0, 0))
      [] op = \b11110110 -> Operand1("OrImmediate", fetch_data(s))
      [] op = \b10111000 -> Decoded(s, I("CompareRegister", B, 0))
      [] op = \b10111001 -> Decoded(s, I("CompareRegister", C, 0))
      [] op = \b10111010 -> Decoded(s, I("CompareRegister", D, 0))
      [] op = \b10111011 -> Decoded(s, I("CompareRegister", E, 0))
      [] op = \b10111100 -> Decoded(s, I("CompareRegister", H, 0))
      [] op = \b10111101 -> Decoded(s, I("CompareRegister", L, 0))
      [] op = \b10111111 -> Decoded(s, I("CompareRegister", A, 0))
      [] op = \b10111110 -> Decoded(s, I("CompareMemory", 0, 0))
      [] op = \b11111110 -> Operand1("CompareImmediate", fetch_data(s))
      [] op = \b00000111 -> Decoded(s, I("RotateLeft", 0, 0))
      [] op = \b00001111 -> Decoded(s, I("RotateRight", 0, 0))
      [] op = \b00010111 -> Decoded(s, I("RotateLeftThroughCarry", 0, 0))
      [] op = \b00011111 -> Decoded(s, I("RotateRightThroughCarry", 0, 0))
      [] op = \b00101111 -> Decoded(s, I("ComplementAccumulator", 0, 0))
      [] op = \b00111111 -> Decoded(s, I("ComplementCarry", 0, 0))
      [] op = \b00110111 -> Decoded(s, I("SetCarry", 0, 0))
      [] op = \b11000011 -> Operand1("Jump", fetch_address(s))
      [] op = \b11000010 -> Operand2("ConditionalJump", NotZero, fetch_address(s))
      [] op = \b11001010 -> Operand2("ConditionalJump", Zero, fetch_address(s))
      [] op = \b11010010 -> Operand2("ConditionalJump", NoCarry, fetch_address(s))
      [] op = \b11011010 -> Operand2("ConditionalJump", Carry, fetch_address(s))
      [] op = \b11100010 -> Operand2("ConditionalJump", ParityOdd, fetch_address(s))
      [] op = \b11101010 -> Operand2("ConditionalJump", ParityEven, fetch_address(s))
      [] op = \b11110010 -> Operand2("ConditionalJump", Plus, fetch_address(s))
      [] op = \b11111010 -> Operand2("ConditionalJump", Minus, fetch_address(s))
      [] op = \b11001101 -> Operand1("Call", fetch_address(s))
      [] op = \b11000100 -> Operand2("ConditionalCall", NotZero, fetch_address(s))
      [] op = \b11001100 -> Operand2("ConditionalCall", Zero, fetch_address(s))
      [] op = \b11010100 -> Operand2("ConditionalCall", NoCarry, fetch_address(s))
      [] op = \b11011100 -> Operand2("ConditionalCall", Carry, fetch_address(s))
      [] op = \b11100100 -> Operand2("ConditionalCall", ParityOdd, fetch_address(s))
      [] op = \b11101100 -> Operand2("ConditionalCall", ParityEven, fetch_address(s))
      [] op = \b11110100 -> Operand2("ConditionalCall", Plus, fetch_address(s))
      [] op = \b11111100 -> Operand2("ConditionalCall", Minus, fetch_address(s))
      [] op = \b11001001 -> Decoded(s, I("Return", 0, 0))
      [] op = \b11000000 -> Decoded(s, I("ConditionalReturn", NotZero, 0))
      [] op = \b11001000 -> Decoded(s, I("ConditionalReturn", Zero, 0))
      [] op = \b11010000 -> Decoded(s, I("ConditionalReturn", NoCarry, 0))
      [] op = \b11011000 -> Decoded(s, I("ConditionalReturn", Carry, 0))
      [] op = \b11100000 -> Decoded(s, I("ConditionalReturn", ParityOdd, 0))
      [] op = \b11101000 -> Decoded(s, I("ConditionalReturn", ParityEven, 0))
      [] op = \b11110000 -> Decoded(s, I("ConditionalReturn", Plus, 0))
      [] op = \b11111000 -> Decoded(s, I("ConditionalReturn", Minus, 0))
      [] op = \b11000111 -> Decoded(s, I("Restart", 0, 0))
      [] op = \b11001111 -> Decoded(s, I("Restart", 1, 0))
      [] op = \b11010111 -> Decoded(s, I("Restart", 2, 0))
      [] op = \b11011111 -> Decoded(s, I("Restart", 3, 0))
      [] op = \b11100111 -> Decoded(s, I("Restart", 4, 0))
      [] op = \b11101111 -> Decoded(s, I("Restart", 5, 0))
      [] op = \b11110111 -> Decoded(s, I("Restart", 6, 0))
      [] op = \b11111111 -> Decoded(s, I("Restart", 7, 0))
      [] op = \b11101001 -> Decoded(s, I("JumpHLIndirect", 0, 0))
      [] op = \b11000101 -> Decoded(s, I("Push", BC, 0))
      [] op = \b11010101 -> Decoded(s, I("Push", DE, 0))
      [] op = \b11100101 -> Decoded(s, I("Push", HL, 0))
      [] op = \b11110101 -> Decoded(s, I("PushProcessorStatusWord", 0, 0))
      [] op = \b11000001 -> Decoded(s, I("Pop", BC, 0))
      [] op = \b11010001 -> Decoded(s, I("Pop", DE, 0))
      [] op = \b11100001 -> Decoded(s, I("Pop", HL, 0))
      [] op = \b11110001 -> Decoded(s, I("PopProcessorStatusWord", 0, 0))
      [] op = \b11100011 -> Decoded(s, I("ExchangeSPWithHL", 0, 0))
      [] op = \b11111001 -> Decoded(s, I("MoveHLToSP", 0, 0))
      [] op = \b11011011 -> Operand1("Input", fetch_data(s))
      [] op = \b11010011 -> Operand1("Output", fetch_data(s))
      [] op = \b11111011 -> Decoded(s, I("EnableInterrupts", 0, 0))
      [] op = \b11110011 -> Decoded(s, I("DisableInterrupts", 0, 0))
      [] op = \b01110110 -> Decoded(s, I("Halt", 0, 0))
      [] op = \b00000000 -> Decoded(s, I("NoOperation", 0, 0))
      [] OTHER -> Decoded(s, I("Err", op, 0))

fetch_and_decode_after_incr(s) ==
    IF s.panic THEN Decoded(s, NoInstruction)
    ELSE IF ~MemOk(get_pc(s)) THEN Decoded(Panic(s), NoInstruction)
    ELSE LET s1 == incr_pc(s)
             op == get_memory(s1, get_pc(s1))
         IN  IF s1.panic THEN Decoded(s1, NoInstruction) ELSE decode(s1, op)

fetch_and_decode_pop_psw_as_pair(s) ==
    IF s.panic THEN Decoded(s, NoInstruction)
    ELSE IF ~MemOk(get_pc(s)) THEN Decoded(Panic(s), NoInstruction)
    ELSE LET op == get_memory(s, get_pc(s))
             s1 == incr_pc(s)
         IN  IF s1.panic THEN Decoded(s1, NoInstruction)
             ELSE IF op = \b11110001 THEN Decoded(s1, I("Pop", SP, 0))
             ELSE decode(s1, op)

fetch_and_decode(s) ==
    IF s.panic THEN Decoded(s, NoInstruction)
    ELSE IF ~MemOk(get_pc(s)) THEN Decoded(Panic(s), NoInstruction)
    ELSE LET op == get_memory(s, get_pc(s))
             s1 == incr_pc(s)
         IN  IF s1.panic THEN Decoded(s1, NoInstruction) ELSE decode(s1, op)

---------------------------------------------------------------------------
(* I/O ports and the shift register.                                       *)

get_bus_in_reads_latch(s, port) ==
    IF s.panic THEN Fetched(s, 0)
    ELSE IF port \notin 0 .. (NPORTS - 1) THEN Fetched(Panic(s), 0)
    ELSE Fetched(s, s.bus_in[port])

get_bus_in(s, port) ==
    IF s.panic THEN Fetched(s, 0)
    ELSE IF port = 3 THEN Fetched(s, ((s.shift * Pow2(s.offset)) % 65536) \div 256)
    ELSE IF port \notin 0 .. (NPORTS - 1) THEN Fetched(Panic(s), 0)
    ELSE Fetched(s, s.bus_in[port])

set_bus_in(s, port, data) ==
    IF s.panic THEN s
    ELSE IF port \notin 0 .. (NPORTS - 1) THEN Panic(s)
    ELSE [s EXCEPT !.bus_in[port] = data]

get_bus_out(s, port) ==
    IF s.panic THEN Fetched(s, 0)
    ELSE IF port \notin 0 .. (NPORTS - 1) THEN Fetched(Panic(s), 0)
    ELSE Fetched(s, s.bus_out[port])

set_bus_out_shifts_left(s, port, data) ==
    IF s.panic THEN s
    ELSE LET s1 == IF port = 2 THEN [s EXCEPT !.offset = BitAnd(data, 7)]
                   ELSE IF port = 4
                   THEN [s EXCEPT !.shift = BitOr(data, (s.shift * 256) % 65536)]
                   ELSE s
         IN  IF port \notin 0 .. (NPORTS - 1) THEN Panic(s1)
             ELSE [s1 EXCEPT !.bus_out[port] = data]

set_bus_out(s, port, data) ==
    IF s.panic THEN s
    ELSE LET s1 == IF port = 2 THEN [s EXCEPT !.offset = BitAnd(data, 7)]
                   ELSE IF port = 4
                   THEN [s EXCEPT !.shift = BitOr(data * 256, s.shift \div 256)]
                   ELSE s
         IN  IF port \notin 0 .. (NPORTS - 1) THEN Panic(s1)
             ELSE [s1 EXCEPT !.bus_out[port] = data]

(* The logical display; the Cpu reads framebuffer = &memory[0x2400..0x4000] *)
(* with DISPLAY_HEIGHT / 8 bytes to a column.                              *)
DISPLAY_WIDTH == 224
DISPLAY_HEIGHT == 256

display_unflipped(s, x, y) ==
    LET index == (x * DISPLAY_HEIGHT) \div 8 + y \div 8
    IN  IF s.panic THEN Fetched(s, FALSE)
        ELSE IF index \notin 0 .. (MEMORY_SIZE - 9216 - 1) THEN Fetched(Panic(s), FALSE)
        ELSE Fetched(s, get_bit(get_memory(s, 9216 + index), 7 - (y % 8)))

(* The u32 expression underflows, and the index then falls outside the     *)
(* slice, for a y of DISPLAY_HEIGHT + 8 or more; both panic.               *)
display(s, x, y) ==
    LET index == (x * DISPLAY_HEIGHT) \div 8 + (DISPLAY_HEIGHT \div 8 - y \div 8) - 1
    IN  IF s.panic THEN Fetched(s, FALSE)
        ELSE IF index \notin 0 .. (MEMORY_SIZE - 9216 - 1) THEN Fetched(Panic(s), FALSE)
        ELSE Fetched(s, get_bit(get_memory(s, 9216 + index), 7 - (y % 8)))

get_display_update(s) == s.display_update

set_display_update(s, value) ==
    IF s.panic THEN s ELSE [s EXCEPT !.display_update = value]

---------------------------------------------------------------------------
(* execute: one operator for each arm of the match, taking the Cpu and the *)
(* fields of the instruction, and giving the Cpu after the arm and the     *)
(* cycle count the arm returns (0 stands for "no value" after a panic).    *)

Cycles(s, n) == [st |-> s, cycles |-> IF s.panic THEN 0 ELSE n]

(* self.get_memory(addr) as an expression: the byte, or the panic.         *)
Load(s, addr) ==
    IF s.panic THEN Fetched(s, 0)
    ELSE IF ~MemOk(addr) THEN Fetched(Panic(s), 0)
    ELSE Fetched(s, get_memory(s, addr))

(* u8::overflowing_sub and the u8 + u8 of the source, which panics on      *)
(* overflow when overflow checks are on and wraps otherwise.               *)
overflowing_sub(a, b) == [val |-> (a - b + 256) % 256, carry |-> a < b]

AddU8(s, a, b) ==
    IF s.panic THEN Fetched(s, 0)
    ELSE IF a + b > 255
         THEN (IF s.debug THEN Fetched(Panic(s), 0) ELSE Fetched(s, (a + b) % 256))
         ELSE Fetched(s, a + b)

NoOperation_skips(s) == Cycles(incr_pc(s), 4)

NoOperation_takes_no_time(s) == Cycles(s, 0)

NoOperation(s) == Cycles(s, 4)

Jump(s, addr) == Cycles(set_pc(s, addr), 10)

JumpHLIndirect(s) == Cycles(set_pc(s, get_register_pair(s, HL)), 5)

LoadRegisterPairImmediate(s, rp, data) == Cycles(set_register_pair(s, rp, data), 10)

MoveImmediate(s, r, data) == Cycles(set_register(s, r, data), 7)

Call_pushes_own_address(s, addr) ==
    Cycles(set_pc(push(s, get_pc(s) - 3), addr), 17)

Call(s, addr) == Cycles(set_pc(push(s, get_pc(s)), addr), 17)

Return(s) ==
    LET p == pop(s)
    IN  Cycles(set_pc(p.st, p.val), 10)

LoadAccumulatorIndirect(s, rp) ==
    IF rp \in {BC, DE}
    THEN LET m == Load(s, get_register_pair(s, rp))
         IN  Cycles(set_register(m.st, A, m.val), 7)
    ELSE Cycles(Panic(s), 7)

StoreAccumulatorIndirect(s, rp) ==
    IF rp \in {BC, DE}
    THEN Cycles(set_memory(s, get_register_pair(s, rp), get_register(s, A)), 7)
    ELSE Cycles(Panic(s), 7)

MoveToMemory(s, r) ==
    Cycles(set_memory(s, get_register_pair(s, HL), get_register(s, r)), 7)

IncrementRegisterPair(s, rp) ==
    Cycles(set_register_pair(s, rp, (get_register_pair(s, rp) + 1) % 65536), 5)

DecrementRegisterPair(s, rp) ==
    Cycles(set_register_pair(s, rp, (get_register_pair(s, rp) + 65535) % 65536), 5)

DecrementRegister_borrows(s, r) ==
    LET before == get_register(s, r)
        after  == (before + 255) % 256
        s1     == set_register(s, r, after)
    IN  Cycles(set_flags_for_arithmetic(s1, before, after, before = 0), 5)

DecrementRegister(s, r) ==
    LET before == get_register(s, r)
        after  == (before + 255) % 256
        s1     == set_register(s, r, after)
    IN  Cycles(set_flags_for_arithmetic(s1, before, after, get_flag(s1, "CY")), 5)

IncrementRegister(s, r) ==
    LET before == get_register(s, r)
        after  == (before + 1) % 256
        s1     == set_register(s, r, after)
    IN  Cycles(set_flags_for_arithmetic(s1, before, after, get_flag(s1, "CY")), 5)

DecrementMemory(s) ==
    LET addr   == get_register_pair(s, HL)
        m      == Load(s, addr)
        before == m.val
        after  == (before + 255) % 256
        s1     == set_memory(m.st, addr, after)
    IN  Cycles(set_flags_for_arithmetic(s1, before, after, get_flag(s1, "CY")), 10)

IncrementMemory(s) ==
    LET addr   == get_register_pair(s, HL)
        m      == Load(s, addr)
        before == m.val
        after  == (before + 1) % 256
        s1     == set_memory(m.st, addr, after)
    IN  Cycles(set_flags_for_arithmetic(s1, before, after, get_flag(s1, "CY")), 10)

ConditionalJump_always(s, c, addr) == Cycles(set_pc(s, addr), 10)

ConditionalJump(s, c, addr) ==
    IF is_condition(s, c) THEN Cycles(set_pc(s, addr), 10) ELSE Cycles(s, 10)

ConditionalCall(s, c, addr) ==
    IF is_condition(s, c)
    THEN Cycles(set_pc(push(s, get_pc(s)), addr), 17)
    ELSE Cycles(s, 11)

ConditionalReturn(s, c) ==
    IF is_condition(s, c)
    THEN LET p == pop(s) IN Cycles(set_pc(p.st, p.val), 11)
    ELSE Cycles(s, 5)

MoveToMemoryImmediate(s, data) ==
    Cycles(set_memory(s, get_register_pair(s, HL), data), 10)

MoveRegister(s, to, from) == Cycles(set_register(s, to, get_register(s, from)), 5)

CompareImmediate(s, data) ==
    LET before == get_register(s, A)
        sub    == overflowing_sub(before, data)
    IN  Cycles(set_flags_for_arithmetic(s, before, sub.val, sub.carry), 7)

CompareRegister_stores(s, r) ==
    LET before == get_register(s, A)
        sub    == overflowing_sub(before, get_register(s, r))
        s1     == set_register(s, A, sub.val)
    IN  Cycles(set_flags_for_arithmetic(s1, before, sub.val, sub.carry), 4)

CompareRegister(s, r) ==
    LET before == get_register(s, A)
        sub    == overflowing_sub(before, get_register(s, r))
    IN  Cycles(set_flags_for_arithmetic(s, before, sub.val, sub.carry), 4)

CompareMemory(s) ==
    LET before == get_register(s, A)
        m      == Load(s, get_register_pair(s, HL))
        sub    == overflowing_sub(before, m.val)
    IN  Cycles(set_flags_for_arithmetic(m.st, before, sub.val, sub.carry), 7)

Push_any_pair(s, rp) == Cycles(push(s, get_register_pair(s, rp)), 11)

Push(s, rp) ==
    IF rp \in {BC, DE, HL}
    THEN Cycles(push(s, get_register_pair(s, rp)), 11)
    ELSE Cycles(Panic(s), 11)

Pop(s, rp) ==
    IF rp \in {BC, DE, HL}
    THEN LET p == pop(s) IN Cycles(set_register_pair(p.st, rp, p.val % 65536), 10)
    ELSE Cycles(Panic(s), 10)

AddRegisterPairToHL_sets_zero(s, rp) ==
    LET sum == get_register_pair(s, HL) + get_register_pair(s, rp)
        s1  == set_register_pair(s, HL, sum % 65536)
        s2  == set_flag(s1, "Z", sum % 65536 = 0)
    IN  Cycles(set_flag(s2, "CY", sum > 65535), 10)

AddRegisterPairToHL(s, rp) ==
    LET sum == get_register_pair(s, HL) + get_register_pair(s, rp)
        s1  == set_register_pair(s, HL, sum % 65536)
    IN  Cycles(set_flag(s1, "CY", sum > 65535), 10)

ExchangeHLWithDE(s) ==
    LET hl == get_register_pair(s, HL)
        s1 == set_register_pair(s, HL, get_register_pair(s, DE))
    IN  Cycles(set_register_pair(s1, DE, hl), 4)

ExchangeSPWithHL(s) ==
    LET h  == get_register(s, H)
        l  == get_register(s, L)
        sl == Load(s, get_sp(s))
        sh == Load(sl.st, get_sp(s) + 1)
        s1 == set_register(sh.st, L, sl.val)
        s2 == set_register(s1, H, sh.val)
        s3 == set_memory(s2, get_sp(s2), l)
    IN  Cycles(set_memory(s3, get_sp(s3) + 1, h), 18)

Output(s, port) == Cycles(set_bus_out(s, port, get_register(s, A)), 10)

Input(s, port) ==
    LET bus == get_bus_in(s, port)
    IN  Cycles(set_register(bus.st, A, bus.val), 10)

MoveFromMemory(s, r) ==
    LET m == Load(s, get_register_pair(s, HL))
    IN  Cycles(set_register(m.st, r, m.val), 7)

PushProcessorStatusWord(s) ==
    LET s1 == push_data(s, get_register(s, A))
    IN  Cycles(push_data(s1, get_flags(s1)), 11)

PopProcessorStatusWord(s) ==
    LET flags == pop_data(s)
        s1    == set_flags(flags.st, flags.val)
        a     == pop_data(s1)
    IN  Cycles(set_register(a.st, A, a.val), 10)

RotateRight(s) ==
    LET acc == get_register(s, A)
        s1  == set_flag(s, "CY", get_bit(acc, 0))
    IN  Cycles(set_register(s1, A, (acc \div 2) + (acc % 2) * 128), 4)

RotateLeft_through_carry(s) ==
    LET acc == get_register(s, A)
        cy  == IF get_flag(s, "CY") THEN 1 ELSE 0
        s1  == set_flag(s, "CY", get_bit(acc, 7))
    IN  Cycles(set_register(s1, A, ((acc * 2) % 256) + cy), 4)

RotateLeft(s) ==
    LET acc == get_register(s, A)
        s1  == set_flag(s, "CY", get_bit(acc, 7))
    IN  Cycles(set_register(s1, A, ((acc * 2) % 256) + (acc \div 128)), 4)

RotateRightThroughCarry(s) ==
    LET acc0 == get_register(s, A)
        low  == get_bit(acc0, 0)
        acc  == set_bit(acc0 \div 2, 7, get_flag(s, "CY"))
        s1   == set_flag(s, "CY", low)
    IN  Cycles(set_register(s1, A, acc), 4)

OrMemory(s) ==
    LET before == get_register(s, A)
        m      == Load(s, get_register_pair(s, HL))
        s1     == set_register(m.st, A, BitOr(before, m.val))
        s2     == set_flags_for_arithmetic(s1, before, get_register(s1, A), FALSE)
    IN  Cycles(set_flag(s2, "AC", FALSE), 7)

OrRegister(s, r) ==
    LET before == get_register(s, A)
        val    == get_register(s, r)
        s1     == set_register(s, A, BitOr(before, val))
        s2     == set_flags_for_arithmetic(s1, before, get_register(s1, A), FALSE)
    IN  Cycles(set_flag(s2, "AC", FALSE), 4)

OrImmediate(s, val) ==
    LET before == get_register(s, A)
        s1     == set_register(s, A, BitOr(before, val))
        s2     == set_flags_for_arithmetic(s1, before, get_register(s1, A), FALSE)
    IN  Cycles(set_flag(s2, "AC", FALSE), 7)

AndImmediate_computes_aux(s, data) ==
    LET before == get_register(s, A)
        s1     == set_register(s, A, BitAnd(before, data))
    IN  Cycles(set_flags_for_arithmetic(s1, before, get_register(s1, A), FALSE), 7)

AndImmediate(s, data) ==
    LET before == get_register(s, A)
        s1     == set_register(s, A, BitAnd(before, data))
        s2     == set_flags_for_arithmetic(s1, before, get_register(s1, A), FALSE)
    IN  Cycles(set_flag(s2, "AC", FALSE), 7)

AndMemory(s) ==
    LET before == get_register(s, A)
        m      == Load(s, get_register_pair(s, HL))
        s1     == set_register(m.st, A, BitAnd(before, m.val))
    IN  Cycles(set_flags_for_arithmetic(s1, before, get_register(s1, A), FALSE), 7)

AddImmediate(s, addend) == Cycles(add(s, addend), 7)

AddRegister(s, r) == Cycles(add(s, get_register(s, r)), 4)

AddRegisterWithCarry(s, r) ==
    LET sum == AddU8(s, get_register(s, r), IF get_flag(s, "CY") THEN 1 ELSE 0)
    IN  Cycles(IF sum.st.panic THEN sum.st ELSE add(sum.st, sum.val), 4)

AddMemory(s) ==
    LET m == Load(s, get_register_pair(s, HL))
    IN  Cycles(IF m.st.panic THEN m.st ELSE add(m.st, m.val), 7)

SubtractRegister(s, r) ==
    LET before == get_register(s, A)
        sub    == overflowing_sub(before, get_register(s, r))
        s1     == set_register(s, A, sub.val)
    IN  Cycles(set_flags_for_arithmetic(s1, before, get_register(s1, A), sub.carry), 4)

SubtractImmediate(s, data) ==
    LET before == get_register(s, A)
        sub    == overflowing_sub(before, data)
        s1     == set_register(s, A, sub.val)
    IN  Cycles(set_flags_for_arithmetic(s1, before, get_register(s1, A), sub.carry), 7)

SubtractImmediateWithBorrow(s, data) ==
    LET before == get_register(s, A)
        rhs    == AddU8(s, data, IF get_flag(s, "CY") THEN 1 ELSE 0)
        sub    == overflowing_sub(before, rhs.val)
        s1     == set_register(rhs.st, A, sub.val)
    IN  Cycles(set_flags_for_arithmetic(s1, before, get_register(s1, A), sub.carry), 7)

LoadAccumulatorDirect(s, addr) ==
    LET m == Load(s, addr)
    IN  Cycles(set_register(m.st, A, m.val), 13)

StoreAccumulatorDirect(s, addr) == Cycles(set_memory(s, addr, get_register(s, A)), 13)

ComplementAccumulator(s) ==
    Cycles(set_register(s, A, BitXor(get_register(s, A), 255)), 4)

XorRegister_keeps_aux(s, r) ==
    LET before == get_register(s, A)
        s1     == set_register(s, A, BitXor(before, get_register(s, r)))
    IN  Cycles(set_flags_for_arithmetic(s1, before, get_register(s1, A), FALSE), 4)

XorRegister(s, r) ==
    LET before == get_register(s, A)
        s1     == set_register(s, A, BitXor(before, get_register(s, r)))
        s2     == set_flags_for_arithmetic(s1, before, get_register(s1, A), FALSE)
    IN  Cycles(set_flag(s2, "AC", FALSE), 4)

AndRegister_clears_aux(s, r) ==
    LET before == get_register(s, A)
        s1     == set_register(s, A, BitAnd(before, get_register(s, r)))
        s2     == set_flags_for_arithmetic(s1, before, get_register(s1, A), FALSE)
    IN  Cycles(set_flag(s2, "AC", FALSE), 4)

AndRegister(s, r) ==
    LET before == get_register(s, A)
        s1     == set_register(s, A, BitAnd(before, get_register(s, r)))
    IN  Cycles(set_flags_for_arithmetic(s1, before, get_register(s1, A), FALSE), 4)

DisableInterrupts_noop(s) == Cycles(s, 4)

DisableInterrupts(s) ==
    Cycles(IF s.panic THEN s ELSE [s EXCEPT !.interruptable = FALSE], 4)

EnableInterrupts(s) ==
    Cycles(IF s.panic THEN s ELSE [s EXCEPT !.interruptable = TRUE], 4)

Restart(s, data) == Cycles(set_pc(push(s, get_pc(s)), 8 * data), 11)

SetCarry(s) == Cycles(set_flag(s, "CY", TRUE), 4)

LoadHLDirect(s, addr) ==
    LET lo == Load(s, addr)
        s1 == set_register(lo.st, L, lo.val)
        hi == Load(s1, addr + 1)
    IN  Cycles(set_register(hi.st, H, hi.val), 16)

StoreHLDirect(s, addr) ==
    LET s1 == set_memory(s, addr, get_register(s, L))
    IN  Cycles(set_memory(s1, addr + 1, get_register(s1, H)), 16)

DecimalAdjustAccumulator_adjusted_high(s) ==
    LET acc  == get_register(s, A)
        low  == BitAnd(acc, 15) > 9 \/ get_flag(s, "AC")
        acc1 == IF low THEN (acc + 6) % 256 ELSE acc
        s1   == IF low THEN set_flag(s, "AC", TRUE) ELSE s
        high == acc1 > 153 \/ get_flag(s1, "CY")
        acc2 == IF high THEN (acc1 + 96) % 256 ELSE acc1
        s2   == IF high THEN set_flag(s1, "CY", TRUE) ELSE s1
    IN  Cycles(set_register(s2, A, acc2), 4)

DecimalAdjustAccumulator(s) ==
    LET acc  == get_register(s, A)
        low  == BitAnd(acc, 15) > 9 \/ get_flag(s, "AC")
        acc1 == IF low THEN (acc + 6) % 256 ELSE acc
        s1   == IF low THEN set_flag(s, "AC", TRUE) ELSE s
        high == acc > 153 \/ get_flag(s1, "CY")
        acc2 == IF high THEN (acc1 + 96) % 256 ELSE acc1
        s2   == IF high THEN set_flag(s1, "CY", TRUE) ELSE s1
    IN  Cycles(set_register(s2, A, acc2), 4)

(* The last arm of the match: panic!("Unimplemented ...").                 *)
Unimplemented_skips(s) == Cycles(s, 4)

Unimplemented(s) == Cycles(Panic(s), 0)

execute(s, instr) ==
    LET n == instr.name
        x == instr.x
        y == instr.y
    IN  IF s.panic THEN Cycles(s, 0)
        ELSE CASE n = "NoOperation" -> NoOperation(s)
          [] n = "Jump" -> Jump(s, x)
          [] n = "JumpHLIndirect" -> JumpHLIndirect(s)
          [] n = "LoadRegisterPairImmediate" -> LoadRegisterPairImmediate(s, x, y)
          [] n = "MoveImmediate" -> MoveImmediate(s, x, y)
          [] n = "Call" -> Call(s, x)
          [] n = "Return" -> Return(s)
          [] n = "LoadAccumulatorIndirect" -> LoadAccumulatorIndirect(s, x)
          [] n = "StoreAccumulatorIndirect" -> StoreAccumulatorIndirect(s, x)
          [] n = "MoveToMemory" -> MoveToMemory(s, x)
          [] n = "IncrementRegisterPair" -> IncrementRegisterPair(s, x)
          [] n = "DecrementRegisterPair" -> DecrementRegisterPair(s, x)
          [] n = "DecrementRegister" -> DecrementRegister(s, x)
          [] n = "IncrementRegister" -> IncrementRegister(s, x)
          [] n = "DecrementMemory" -> DecrementMemory(s)
          [] n = "IncrementMemory" -> IncrementMemory(s)
          [] n = "ConditionalJump" -> ConditionalJump(s, x, y)
          [] n = "ConditionalCall" -> ConditionalCall(s, x, y)
          [] n = "ConditionalReturn" -> ConditionalReturn(s, x)
          [] n = "MoveToMemoryImmediate" -> MoveToMemoryImmediate(s, x)
          [] n = "MoveRegister" -> MoveRegister(s, x, y)
          [] n = "CompareImmediate" -> CompareImmediate(s, x)
          [] n = "CompareRegister" -> CompareRegister(s, x)
          [] n = "CompareMemory" -> CompareMemory(s)
          [] n = "Push" -> Push(s, x)
          [] n = "Pop" -> Pop(s, x)
          [] n = "AddRegisterPairToHL" -> AddRegisterPairToHL(s, x)
          [] n = "ExchangeHLWithDE" -> ExchangeHLWithDE(s)
          [] n = "ExchangeSPWithHL" -> ExchangeSPWithHL(s)
          [] n = "Output" -> Output(s, x)
          [] n = "Input" -> Input(s, x)
          [] n = "MoveFromMemory" -> MoveFromMemory(s, x)
          [] n = "PushProcessorStatusWord" -> PushProcessorStatusWord(s)
          [] n = "PopProcessorStatusWord" -> PopProcessorStatusWord(s)
          [] n = "RotateRight" -> RotateRight(s)
          [] n = "RotateLeft" -> RotateLeft(s)
          [] n = "RotateRightThroughCarry" -> RotateRightThroughCarry(s)
          [] n = "OrMemory" -> OrMemory(s)
          [] n = "OrRegister" -> OrRegister(s, x)
          [] n = "OrImmediate" -> OrImmediate(s, x)
          [] n = "AndImmediate" -> AndImmediate(s, x)
          [] n = "AndMemory" -> AndMemory(s)
          [] n = "AddImmediate" -> AddImmediate(s, x)
          [] n = "AddRegister" -> AddRegister(s, x)
          [] n = "AddRegisterWithCarry" -> AddRegisterWithCarry(s, x)
          [] n = "AddMemory" -> AddMemory(s)
          [] n = "SubtractRegister" -> SubtractRegister(s, x)
          [] n = "SubtractImmediate" -> SubtractImmediate(s, x)
          [] n = "SubtractImmediateWithBorrow" -> SubtractImmediateWithBorrow(s, x)
          [] n = "LoadAccumulatorDirect" -> LoadAccumulatorDirect(s, x)
          [] n = "StoreAccumulatorDirect" -> StoreAccumulatorDirect(s, x)
          [] n = "ComplementAccumulator" -> ComplementAccumulator(s)
          [] n = "XorRegister" -> XorRegister(s, x)
          [] n = "AndRegister" -> AndRegister(s, x)
          [] n = "DisableInterrupts" -> DisableInterrupts(s)
          [] n = "EnableInterrupts" -> EnableInterrupts(s)
          [] n = "Restart" -> Restart(s, x)
          [] n = "SetCarry" -> SetCarry(s)
          [] n = "LoadHLDirect" -> LoadHLDirect(s, x)
          [] n = "StoreHLDirect" -> StoreHLDirect(s, x)
          [] n = "DecimalAdjustAccumulator" -> DecimalAdjustAccumulator(s)
          [] OTHER -> Unimplemented(s)

---------------------------------------------------------------------------
(* The public operations.  Each gives the Cpu after the call and the value *)
(* returned.                                                               *)

interrupt_no_gate(s, data) ==
    IF s.panic THEN Cycles(s, 0)
    ELSE execute([s EXCEPT !.interruptable = FALSE], I("Restart", data, 0))

interrupt_gate_left_open(s, data) ==
    IF s.panic THEN Cycles(s, 0)
    ELSE IF s.interruptable
         THEN execute(s, I("Restart", data, 0))
         ELSE Cycles(s, 0)

interrupt(s, data) ==
    IF s.panic THEN Cycles(s, 0)
    ELSE IF s.interruptable
         THEN execute([s EXCEPT !.interruptable = FALSE], I("Restart", data, 0))
         ELSE Cycles(s, 0)

(* step also hands back what fetch_and_decode gave, for the record of the  *)
(* call.                                                                   *)
step(s) ==
    LET d == fetch_and_decode(s)
        r == execute(d.st, d.instr)
    IN  [st |-> r.st, cycles |-> r.cycles, decoded |-> d]

---------------------------------------------------------------------------
(* The machine as a state machine: the fields of the Cpu, and a record of  *)
(* the last call made on it (what was called, what it decoded, what it     *)
(* returned, and the Cpu before the call and after its decoding).          *)

VARIABLES memory, pc, registers, sp, bus_in, bus_out, shift, offset,
          interruptable, display_update, panic, debug,
          call, arg, instr, cycles, pre, mid, ncalls, nirq, gate_hist, run

cpu_vars == <<memory, pc, registers, sp, bus_in, bus_out, shift, offset,
              interruptable, display_update, panic, debug>>

vars == <<memory, pc, registers, sp, bus_in, bus_out, shift, offset,
          interruptable, display_update, panic, debug,
          call, arg, instr, cycles, pre, mid, ncalls, nirq, gate_hist, run>>

Cpu == [ memory |-> memory, pc |-> pc, registers |-> registers, sp |-> sp,
         bus_in |-> bus_in, bus_out |-> bus_out, shift |-> shift,
         offset |-> offset, interruptable |-> interruptable,
         display_update |-> display_update, panic |-> panic, debug |-> debug ]

Becomes(s) ==
    /\ memory' = s.memory
    /\ pc' = s.pc
    /\ registers' = s.registers
    /\ sp' = s.sp
    /\ bus_in' = s.bus_in
    /\ bus_out' = s.bus_out
    /\ shift' = s.shift
    /\ offset' = s.offset
    /\ interruptable' = s.interruptable
    /\ display_update' = s.display_update
    /\ panic' = s.panic
    /\ debug' = s.debug

Starts(s) ==
    /\ memory = s.memory
    /\ pc = s.pc
    /\ registers = s.registers
    /\ sp = s.sp
    /\ bus_in = s.bus_in
    /\ bus_out = s.bus_out
    /\ shift = s.shift
    /\ offset = s.offset
    /\ interruptable = s.interruptable
    /\ display_update = s.display_update
    /\ panic = s.panic
    /\ debug = s.debug

(* Bounds of the exploration.                                              *)
MaxCalls == 6
MaxInterrupts == 2

Vectors == {1, 2, 255}

(* Program images.                                                         *)
ROM_END == MEMORY_SIZE \div 2 - 1

Pad(seq, n) == seq \o [i \in 1 .. (n - Len(seq)) |-> 0]

(* Every opcode at address 0, followed by two operand bytes.               *)
DecodePrograms == { <<op, 52, 18>> : op \in 0 .. 255 }

(* JMP to the last three bytes of ROM, which hold an opcode and two        *)
(* operand bytes: NOP, MVI B, JMP, LXI SP, and the unused opcode 08h.      *)
EdgeOpcodes == {0, 6, 195, 49, 8}

EdgePrograms ==
    { Pad(<<195, (ROM_END - 2) % 256, (ROM_END - 2) \div 256>>, ROM_END - 2)
        \o <<op, 52, 18>> : op \in EdgeOpcodes }

(* LXI SP,2400h and three of EI / DI / NOP; RET at 0008h (RST 1); EI, RET  *)
(* at 0010h (RST 2); EI at 07F8h (RST 255).                                *)
GateOps == {251, 243, 0}

IrqPrograms ==
    { Pad(Pad(<<49, 0, 36, c1, c2, c3>>, 8) \o <<201>> \o Pad(<<>>, 7) \o <<251, 201>>,
          8 * 255) \o <<251>> :
        c1 \in GateOps, c2 \in GateOps, c3 \in GateOps }

(* Programs that leave the address ranges: JMP 2000h; LXI H,2000h, PCHL;   *)
(* LXI SP,2400h, CALL 2000h; LXI SP,2400h, LXI H,2000h, PUSH H, RET;       *)
(* LXI SP,2400h, INX SP; LXI SP,2300h, DCX SP; LXI SP,2300h, PUSH B;       *)
(* MVI A,55h, STA 1000h; LXI SP,1000h, PUSH B; LXI SP,2400h, RST 1.        *)
RangePrograms ==
    { <<195, 0, 32>>, <<33, 0, 32, 233>>, <<49, 0, 36, 205, 0, 32>>,
      <<49, 0, 36, 33, 0, 32, 229, 201>>, <<49, 0, 36, 51>>, <<49, 0, 35, 59>>,
      <<49, 0, 35, 197>>, <<62, 85, 50, 0, 16>>, <<49, 0, 16, 197>>,
      <<49, 0, 36, 207>> }

(* LXI SP,2400h, CALL 0008h, and at 0008h a RET, or PUSH B, POP B, RET.    *)
CallPrograms ==
    { <<49, 0, 36, 205, 8, 0, 0, 0, 201>>,
      <<49, 0, 36, 205, 8, 0, 0, 0, 197, 193, 201>> }

Programs ==
    {<<>>} \cup DecodePrograms \cup EdgePrograms \cup IrqPrograms \cup RangePrograms
      \cup CallPrograms

(* History of the interrupt gate, kept for the claims about it:            *)
(*   ei_pending   an EI was executed since the last interrupt() call       *)
(*   di_after_ei  a DI was executed since the last EI                      *)
(*   first        the last interrupt() call was the first after an EI      *)
(*   no_di        ... and no DI was executed between that EI and the call  *)
(*   serviced     interrupts serviced since the last EI (or construction)  *)
GateStart ==
    [ei_pending |-> FALSE, di_after_ei |-> FALSE, first |-> FALSE,
     no_di |-> FALSE, serviced |-> 0]

GateAfterStep(g, d, r) ==
    IF r.st.panic THEN g
    ELSE IF d.instr.name = "EnableInterrupts"
    THEN [g EXCEPT !.ei_pending = TRUE, !.di_after_ei = FALSE, !.serviced = 0]
    ELSE IF d.instr.name = "DisableInterrupts"
    THEN [g EXCEPT !.di_after_ei = TRUE]
    ELSE g

GateAfterInterrupt(g, open) ==
    [g EXCEPT !.ei_pending = FALSE,
              !.first = g.ei_pending,
              !.no_di = g.ei_pending /\ ~g.di_after_ei,
              !.serviced = IF open THEN @ + 1 ELSE @]

(* The locals of Emu::run_cpu while no call of it is under way.            *)
NoRun == [cycles_per_frame |-> 0, i |-> 0, cycles |-> 0, since |-> 0, requests |-> <<>>]

Init ==
    \E program \in Programs, build \in BOOLEAN :
        /\ Starts(new(program, build))
        /\ call = "new"
        /\ arg = program
        /\ instr = NoInstruction
        /\ cycles = 0
        /\ pre = new(program, build)
        /\ mid = new(program, build)
        /\ ncalls = 0
        /\ nirq = 0
        /\ gate_hist = GateStart
        /\ run = NoRun

(* The Cpu and the record of the call after a step() that gave r.          *)
Stepped(r) ==
    /\ Becomes(r.st)
    /\ call' = "step"
    /\ arg' = 0
    /\ instr' = r.decoded.instr
    /\ cycles' = r.cycles
    /\ pre' = Cpu
    /\ mid' = r.decoded.st
    /\ gate_hist' = GateAfterStep(gate_hist, r.decoded, r)

(* cpu.step()                                                              *)
Step ==
    /\ ~panic
    /\ ncalls < MaxCalls
    /\ Stepped(step(Cpu))
    /\ ncalls' = ncalls + 1
    /\ UNCHANGED <<nirq, run>>

(* cpu.interrupt(v)                                                        *)
Interrupt(v) ==
    /\ ~panic
    /\ ncalls < MaxCalls
    /\ nirq < MaxInterrupts
    /\ LET r == interrupt(Cpu, v)
       IN  /\ Becomes(r.st)
           /\ cycles' = r.cycles
    /\ call' = "interrupt"
    /\ arg' = v
    /\ instr' = NoInstruction
    /\ pre' = Cpu
    /\ mid' = Cpu
    /\ gate_hist' = GateAfterInterrupt(gate_hist, interruptable)
    /\ ncalls' = ncalls + 1
    /\ nirq' = nirq + 1
    /\ UNCHANGED run

Next == Step \/ \E v \in Vectors : Interrupt(v)

Spec == Init /\ [][Next]_vars

---------------------------------------------------------------------------
(* Claims about interrupt(), checked under Spec.                           *)

(* C1: interrupt(v) with the gate closed returns 0 and leaves the whole    *)
(* Cpu as it was: pc, sp, registers, flags, memory, ports, shift register, *)
(* gate and display flag.                                                  *)
C1_ClosedGateIsNoOp ==
    (call = "interrupt" /\ ~pre.interruptable) => (Cpu = pre /\ cycles = 0)

C1_Witness ==
    /\ call = "interrupt"
    /\ ~pre.interruptable
    /\ arg = 255
    /\ pre.sp \in STACK
    /\ pre.pc > 0

(* C2: interrupt(v) with the gate open, when it does not panic, gives the  *)
(* Cpu that execute(Restart(v)) gives with the gate closed in addition:    *)
(* the old pc pushed high byte at sp-1 and low byte at sp-2, sp lowered by *)
(* 2, pc = 8*v, nothing else touched; and it returns 11.                   *)
C2_OpenGateIsRestart ==
    (call = "interrupt" /\ pre.interruptable /\ ~panic) =>
        /\ Cpu = [execute(pre, I("Restart", arg, 0)).st EXCEPT !.interruptable = FALSE]
        /\ cycles = execute(pre, I("Restart", arg, 0)).cycles
        /\ cycles = 11
        /\ ~interruptable
        /\ pc = 8 * arg
        /\ sp = pre.sp - 2
        /\ get_memory(Cpu, pre.sp - 1) = pre.pc \div 256
        /\ get_memory(Cpu, pre.sp - 2) = pre.pc % 256
        /\ \A a \in (DOMAIN memory \cup DOMAIN pre.memory) \ {pre.sp - 1, pre.sp - 2} :
              get_memory(Cpu, a) = get_memory(pre, a)
        /\ registers = pre.registers
        /\ bus_in = pre.bus_in /\ bus_out = pre.bus_out
        /\ shift = pre.shift /\ offset = pre.offset

C2_Witness ==
    /\ call = "interrupt"
    /\ pre.interruptable
    /\ ~panic
    /\ arg = 1
    /\ pre.pc > 255
    /\ pre.pc % 256 # pre.pc \div 256

(* C3 as claimed: the gate is closed after construction, after a DI and    *)
(* after every serviced interrupt; while closed, interrupt() returns 0 and *)
(* changes nothing; only an executed EI opens it; the first interrupt()    *)
(* call after an EI is serviced; at most one interrupt is serviced after   *)
(* each EI.                                                                *)
GateBasics ==
    /\ (call = "new" => ~interruptable)
    /\ (call = "step" /\ ~panic /\ instr.name = "DisableInterrupts" => ~interruptable)
    /\ (call = "step" /\ ~panic /\ instr.name = "EnableInterrupts" => interruptable)
    /\ (call = "interrupt" /\ pre.interruptable => ~interruptable)
    /\ (call = "interrupt" /\ ~pre.interruptable => Cpu = pre /\ cycles = 0)
    /\ (interruptable /\ ~pre.interruptable =>
            call = "step" /\ instr.name = "EnableInterrupts")
    /\ gate_hist.serviced <= 1

C4_EmptyProgramStepIsNop ==
    (call = "step" /\ pre = new(<<>>, debug)) =>
        /\ ~panic
        /\ instr = I("NoOperation", 0, 0)
        /\ pc = pre.pc + 1
        /\ pc = 1
        /\ cycles = 4
        /\ registers = pre.registers
        /\ get_flags(Cpu) = get_flags(pre)
        /\ sp = pre.sp

C4_Witness ==
    /\ call = "step"
    /\ pre = new(<<>>, debug)
    /\ ncalls = 1
    /\ pc = 1

---------------------------------------------------------------------------
(* Claims about fetch_and_decode, checked under Spec: pre is the Cpu       *)
(* before a step(), mid the Cpu after its fetch_and_decode, instr what it  *)
(* returned.                                                               *)

ErrOpcodes ==
    { op \in 0 .. 255 : fetch_and_decode(new(<<op, 0, 0>>, FALSE)).instr.name = "Err" }

DecodeCompletes ==
    /\ ~mid.panic
    /\ instr.name # ""
    /\ instr.x \in 0 .. 65535
    /\ instr.y \in 0 .. 65535
    /\ (instr.name = "Err" => instr.x = get_memory(pre, pre.pc) /\ instr.y = 0)

(* C5 as claimed: with pc and the two bytes after it inside ROM,           *)
(* fetch_and_decode does not panic and returns an instruction, or Err with *)
(* the opcode byte; Err for exactly 12 opcodes.                            *)
C5_DecodeTotalInRom ==
    /\ (call = "step" /\ pre.pc \in ROM /\ pre.pc + 2 \in ROM => DecodeCompletes)
    /\ (call = "new" => Cardinality(ErrOpcodes) = 12)

(* C5 as amended: the same with pc and the three bytes after it inside     *)
(* ROM, so that pc is inside ROM after any instruction's last byte.        *)
C5_DecodeTotalInsideRom ==
    /\ (call = "step" /\ pre.pc \in ROM /\ pre.pc + 3 \in ROM => DecodeCompletes)
    /\ (call = "new" => Cardinality(ErrOpcodes) = 12)

C5_Witness ==
    /\ call = "step"
    /\ pre.pc \in ROM /\ pre.pc + 3 \in ROM
    /\ debug
    /\ instr = I("Err", 253, 0)

(* The number of immediate bytes of each instruction of the instruction    *)
(* set, and the field of the instruction that holds them.                  *)
ImmediateBytes(name) ==
    IF name \in {"LoadRegisterPairImmediate", "LoadAccumulatorDirect",
                 "StoreAccumulatorDirect", "LoadHLDirect", "StoreHLDirect",
                 "Jump", "ConditionalJump", "Call", "ConditionalCall"} THEN 2
    ELSE IF name \in {"MoveImmediate", "MoveToMemoryImmediate", "AddImmediate",
                      "AddImmediateWithCarry", "SubtractImmediate",
                      "SubtractImmediateWithBorrow", "AndImmediate", "XorImmediate",
                      "OrImmediate", "CompareImmediate", "Input", "Output"} THEN 1
    ELSE 0

ImmediateOf(i) ==
    IF i.name \in {"LoadRegisterPairImmediate", "MoveImmediate", "ConditionalJump",
                   "ConditionalCall"}
    THEN i.y ELSE i.x

(* C6: fetch_and_decode moves pc by 1 plus the immediate bytes of the      *)
(* instruction it returns; one immediate byte is the byte at pc+1, two are *)
(* the little-endian value byte[pc+1] + 256 * byte[pc+2].                  *)
C6_PcAdvanceAndLittleEndian ==
    (call = "step" /\ ~mid.panic) =>
        /\ mid.pc = pre.pc + 1 + ImmediateBytes(instr.name)
        /\ (ImmediateBytes(instr.name) = 1 =>
                ImmediateOf(instr) = get_memory(pre, pre.pc + 1))
        /\ (ImmediateBytes(instr.name) = 2 =>
                ImmediateOf(instr) =
                    get_memory(pre, pre.pc + 1) + 256 * get_memory(pre, pre.pc + 2))

C6_Witness ==
    /\ call = "step"
    /\ ~mid.panic
    /\ instr = I("LoadRegisterPairImmediate", BC, 4660)
    /\ get_memory(pre, pre.pc + 1) = 52
    /\ get_memory(pre, pre.pc + 2) = 18
    /\ mid.pc = pre.pc + 3

(* C7: fetch_and_decode changes pc and nothing else, whatever the opcode.  *)
C7_DecodeChangesOnlyPc ==
    call = "step" => [mid EXCEPT !.pc = pre.pc, !.panic = pre.panic] = pre

C7_Witness ==
    /\ call = "step"
    /\ ~mid.panic
    /\ mid.pc = pre.pc + 1
    /\ pre.sp \in STACK
    /\ pre.interruptable
    /\ pre.display_update
    /\ instr.name = "DisableInterrupts"

---------------------------------------------------------------------------
(* execute() applied directly to a Cpu, as the unit tests of               *)
(* src/src/cpu/tests.rs do: the Cpu is Cpu::new(vec![]) with sp, the       *)
(* register pairs, the accumulator and the flags set through the           *)
(* micro-code, and execute is then called with an instruction.  This       *)
(* reaches the instructions fetch_and_decode never returns.                *)

MaxExecutes == 2

STACK_START == MEMORY_SIZE \div 2 + 768
STACK_END == STACK_START + 256

(* sp left at 0, the ends of the stack range and next to them, and (in a   *)
(* build without the range checks only) just past the end of memory.       *)
SpSamples == {0, STACK_END, STACK_START + 2, STACK_START + 1, MEMORY_SIZE + 1}

PairSamples == { <<4660, 43981, 8192>>, <<65280, 255, 32769>> }

FlagSamples == {0, 255, 42}

ByteSamples == {0, 171, 255, 42}

Setup(build, spv, pairs, a, f) ==
    LET s0 == new(<<>>, build)
        s1 == IF spv = 0 THEN s0 ELSE set_sp(s0, spv)
        s2 == set_register_pair(s1, BC, pairs[1])
        s3 == set_register_pair(s2, DE, pairs[2])
        s4 == set_register_pair(s3, HL, pairs[3])
        s5 == set_register(s4, A, a)
    IN  set_flags(s5, f)

ExecInstrs ==
    { I("Push", rp, 0) : rp \in {BC, DE, HL, SP} }
      \cup { I("Pop", rp, 0) : rp \in {BC, DE, HL, SP} }
      \cup { I("LoadAccumulatorIndirect", rp, 0) : rp \in {BC, DE, HL, SP} }
      \cup { I("StoreAccumulatorIndirect", rp, 0) : rp \in {BC, DE, HL, SP} }
      \cup { I("PushProcessorStatusWord", 0, 0), I("PopProcessorStatusWord", 0, 0) }

InitExec ==
    \E build \in BOOLEAN, spv \in SpSamples, pairs \in PairSamples, f \in FlagSamples :
        LET s == Setup(build, spv, pairs, 171, f)
        IN  /\ ~s.panic
            /\ Starts(s)
            /\ call = "setup"
            /\ arg = 0
            /\ instr = NoInstruction
            /\ cycles = 0
            /\ pre = s
            /\ mid = s
            /\ ncalls = 0
            /\ nirq = 0
            /\ gate_hist = GateStart
            /\ run = NoRun

(* cpu.execute(i)                                                          *)
Execute(i) ==
    /\ ~panic
    /\ ncalls < MaxExecutes
    /\ LET r == execute(Cpu, i)
       IN  /\ Becomes(r.st)
           /\ cycles' = r.cycles
    /\ call' = "execute"
    /\ arg' = 0
    /\ instr' = i
    /\ pre' = Cpu
    /\ mid' = Cpu
    /\ ncalls' = ncalls + 1
    /\ UNCHANGED <<nirq, gate_hist, run>>

NextExec == \E i \in ExecInstrs : Execute(i)

SpecExec == InitExec /\ [][NextExec]_vars

---------------------------------------------------------------------------
(* Claims about execute, checked under SpecExec.                           *)

(* C8: Push(rp), rp one of BC, DE, HL, with sp and sp-2 inside the stack   *)
(* range: writes the high byte of the pair at sp-1 and the low byte at     *)
(* sp-2 and lowers sp by 2; Pop(rp') executed next, for each rp', leaves   *)
(* the pushed value in rp' and sp at its value before the push.            *)
C8_PushPopRoundTrip ==
    (/\ call = "execute"
     /\ instr.name = "Push"
     /\ instr.x \in {BC, DE, HL}
     /\ pre.sp \in STACK
     /\ pre.sp - 2 \in STACK) =>
        LET v == get_register_pair(pre, instr.x)
        IN  /\ ~panic
            /\ cycles = 11
            /\ sp = pre.sp - 2
            /\ get_memory(Cpu, pre.sp - 1) = v \div 256
            /\ get_memory(Cpu, pre.sp - 2) = v % 256
            /\ registers = pre.registers
            /\ \A rp \in {BC, DE, HL} :
                  LET q == execute(Cpu, I("Pop", rp, 0))
                  IN  /\ ~q.st.panic
                      /\ q.cycles = 10
                      /\ get_register_pair(q.st, rp) = v
                      /\ q.st.sp = pre.sp
                      /\ q.st.memory = memory

C8_Witness ==
    /\ call = "execute"
    /\ instr = I("Push", DE, 0)
    /\ debug
    /\ pre.sp = STACK_START + 2
    /\ get_register_pair(pre, DE) = 43981
    /\ sp = STACK_START
    /\ get_memory(Cpu, sp) = 205
    /\ get_memory(Cpu, sp + 1) = 171

(* C9: PushProcessorStatusWord writes the accumulator at sp-1 and then the *)
(* flags byte at sp-2; PopProcessorStatusWord reads the flags byte at sp   *)
(* and then the accumulator at sp+1; and after a push, whatever is then    *)
(* put in A and F, a pop gives back the pushed accumulator, all eight bits *)
(* of the pushed flags byte, and the sp from before the push.              *)
C9_PswRoundTrip ==
    /\ (call = "execute" /\ instr.name = "PushProcessorStatusWord" /\ ~panic) =>
          /\ cycles = 11
          /\ sp = pre.sp - 2
          /\ get_memory(Cpu, pre.sp - 1) = get_register(pre, A)
          /\ get_memory(Cpu, pre.sp - 2) = get_flags(pre)
          /\ registers = pre.registers
          /\ \A a \in ByteSamples, f \in ByteSamples :
                LET q == execute(set_flags(set_register(Cpu, A, a), f),
                                 I("PopProcessorStatusWord", 0, 0))
                IN  /\ ~q.st.panic
                    /\ q.cycles = 10
                    /\ get_register(q.st, A) = get_register(pre, A)
                    /\ get_flags(q.st) = get_flags(pre)
                    /\ q.st.sp = pre.sp
    /\ (call = "execute" /\ instr.name = "PopProcessorStatusWord" /\ ~panic) =>
          /\ cycles = 10
          /\ sp = pre.sp + 2
          /\ get_flags(Cpu) = get_memory(pre, pre.sp)
          /\ get_register(Cpu, A) = get_memory(pre, pre.sp + 1)
          /\ memory = pre.memory

C9_Witness ==
    /\ call = "execute"
    /\ instr.name = "PushProcessorStatusWord"
    /\ ~panic
    /\ get_flags(pre) = 255
    /\ get_register(pre, A) = 171
    /\ sp = pre.sp - 2
    /\ get_memory(Cpu, sp) = 255
    /\ get_memory(Cpu, sp + 1) = 171

(* C10: Push(SP), Pop(SP), and LoadAccumulatorIndirect and                 *)
(* StoreAccumulatorIndirect through HL or SP panic in every Cpu state and  *)
(* in both build profiles.                                                 *)
InvalidPairInstrs ==
    { I("Push", SP, 0), I("Pop", SP, 0),
      I("LoadAccumulatorIndirect", HL, 0), I("LoadAccumulatorIndirect", SP, 0),
      I("StoreAccumulatorIndirect", HL, 0), I("StoreAccumulatorIndirect", SP, 0) }

C10_InvalidPairsAlwaysPanic ==
    (call = "execute" /\ instr \in InvalidPairInstrs) => (panic /\ [Cpu EXCEPT !.panic = FALSE] = pre)

C10_Witness ==
    /\ call = "execute"
    /\ instr = I("Push", SP, 0)
    /\ ~debug
    /\ pre.sp = STACK_END
    /\ panic

---------------------------------------------------------------------------
(* execute() applied once to a Cpu set up for the conditional              *)
(* instructions, as conditional_jump / conditional_call /                  *)
(* conditional_return of src/src/cpu/tests.rs do: pc set, a flags byte     *)
(* set, and either a return address pushed on a stack at its top, or sp at *)
(* the bottom of the stack range, or sp left at 0.                         *)

Conditions == {NotZero, Zero, NoCarry, Carry, ParityOdd, ParityEven, Plus, Minus}

(* No flag, every flag, and each of CY, P, AC, Z, S alone.                 *)
CondFlagSamples == {0, 255, 1, 4, 16, 64, 128}

CondStackSamples == {"pushed", "bottom", "unset"}

ReturnAddress == 1110

CallerPc == 291

CallTarget == 4660

SetupCond(build, f, stack) ==
    LET s0 == set_pc(new(<<>>, build), CallerPc)
        s1 == CASE stack = "pushed" -> push(set_sp(s0, STACK_END), ReturnAddress)
                [] stack = "bottom" -> set_sp(s0, STACK_START)
                [] OTHER            -> s0
    IN  set_flags(s1, f)

CondInstrs ==
    { I("ConditionalJump", c, CallTarget) : c \in Conditions }
      \cup { I("ConditionalCall", c, CallTarget) : c \in Conditions }
      \cup { I("ConditionalReturn", c, 0) : c \in Conditions }

(* The record of the last call, after the set-up, before any call.         *)
SetUp(s) ==
    /\ ~s.panic
    /\ Starts(s)
    /\ call = "setup"
    /\ arg = 0
    /\ instr = NoInstruction
    /\ cycles = 0
    /\ pre = s
    /\ mid = s
    /\ ncalls = 0
    /\ nirq = 0
    /\ gate_hist = GateStart
    /\ run = NoRun

InitCond ==
    \E build \in BOOLEAN, f \in CondFlagSamples, stack \in CondStackSamples :
        SetUp(SetupCond(build, f, stack))

(* cpu.execute(i), once, on the Cpu as set up                              *)
ExecuteOnce(i) ==
    /\ call = "setup"
    /\ LET r == execute(Cpu, i)
       IN  /\ Becomes(r.st)
           /\ cycles' = r.cycles
    /\ call' = "execute"
    /\ arg' = 0
    /\ instr' = i
    /\ pre' = Cpu
    /\ mid' = Cpu
    /\ ncalls' = ncalls + 1
    /\ UNCHANGED <<nirq, gate_hist, run>>

NextCond == \E i \in CondInstrs : ExecuteOnce(i)

SpecCond == InitCond /\ [][NextCond]_vars

---------------------------------------------------------------------------
(* Claims about the conditional instructions, checked under SpecCond.      *)

(* The eight conditions as the flags byte states them: Z is bit 6, CY bit  *)
(* 0, P bit 2 and S bit 7 of F.                                            *)
ConditionTrue(c, flags) ==
    LET bit == CASE c \in {NotZero, Zero}          -> 6
                 [] c \in {NoCarry, Carry}         -> 0
                 [] c \in {ParityOdd, ParityEven}  -> 2
                 [] OTHER                          -> 7
        set == (flags \div Pow2(bit)) % 2 = 1
    IN  IF c \in {Zero, Carry, ParityEven, Minus} THEN set ELSE ~set

(* C11: ConditionalCall with the condition true pushes the return address  *)
(* (pc, high byte at sp-1, low byte at sp-2), sets pc to the target and    *)
(* returns 17, and with the condition false changes nothing and returns    *)
(* 11; ConditionalReturn with the condition true sets pc to the address on *)
(* the stack, raises sp by 2 and returns 11, and with the condition false  *)
(* changes nothing and returns 5.  The taken call does not abort when sp   *)
(* and sp-2 are inside the stack range.                                    *)
C11_ConditionalCallReturn ==
    /\ (call = "execute" /\ instr.name = "ConditionalCall") =>
          IF ConditionTrue(instr.x, get_flags(pre))
          THEN /\ (pre.sp \in STACK /\ pre.sp - 2 \in STACK) => ~panic
               /\ ~panic =>
                     /\ cycles = 17
                     /\ pc = instr.y
                     /\ sp = pre.sp - 2
                     /\ get_memory(Cpu, pre.sp - 1) = pre.pc \div 256
                     /\ get_memory(Cpu, pre.sp - 2) = pre.pc % 256
                     /\ registers = pre.registers
          ELSE Cpu = pre /\ cycles = 11
    /\ (call = "execute" /\ instr.name = "ConditionalReturn") =>
          IF ConditionTrue(instr.x, get_flags(pre))
          THEN ~panic =>
                  /\ cycles = 11
                  /\ pc = get_memory(pre, pre.sp) + 256 * get_memory(pre, pre.sp + 1)
                  /\ sp = pre.sp + 2
                  /\ memory = pre.memory
                  /\ registers = pre.registers
          ELSE Cpu = pre /\ cycles = 5

C11_Witness ==
    /\ call = "execute"
    /\ instr = I("ConditionalCall", ParityEven, CallTarget)
    /\ get_flags(pre) = 4
    /\ debug
    /\ ~panic
    /\ pc = CallTarget
    /\ cycles = 17
    /\ sp = pre.sp - 2
    /\ get_memory(Cpu, sp) = CallerPc % 256

(* C12 as stated: ConditionalJump with the condition true sets pc to the   *)
(* target and returns the taken cycle count, and with the condition false  *)
(* leaves pc unchanged and returns a strictly lower cycle count than the   *)
(* same jump returns when taken (the jump on the opposite condition, in    *)
(* the same state).                                                        *)
Opposite(c) == IF c % 2 = 0 THEN c + 1 ELSE c - 1

C12_NotTakenJumpIsCheaper ==
    (call = "execute" /\ instr.name = "ConditionalJump" /\ ~panic) =>
        IF ConditionTrue(instr.x, get_flags(pre))
        THEN pc = instr.y
        ELSE /\ pc = pre.pc
             /\ cycles < execute(pre, I("ConditionalJump", Opposite(instr.x), instr.y)).cycles

(* C12, amended: ConditionalJump with the condition true sets pc to the    *)
(* target, with the condition false changes nothing, and returns 10 cycles *)
(* in both cases.                                                          *)
C12_ConditionalJumpSameCycles ==
    (call = "execute" /\ instr.name = "ConditionalJump") =>
        /\ ~panic
        /\ cycles = 10
        /\ IF ConditionTrue(instr.x, get_flags(pre))
           THEN Cpu = [pre EXCEPT !.pc = instr.y]
           ELSE Cpu = pre

C12_Witness ==
    /\ call = "execute"
    /\ instr = I("ConditionalJump", Minus, CallTarget)
    /\ get_flags(pre) = 64
    /\ pc = CallerPc
    /\ cycles = 10

---------------------------------------------------------------------------
(* execute() applied once to a Cpu set up for the 8-bit arithmetic and     *)
(* logical instructions, as the unit tests of src/src/cpu/tests.rs do:     *)
(* every accumulator value, an operand held in B, in the byte HL points at *)
(* and in the immediate field, and a flags byte.                           *)

(* 00h, 0Fh and FFh.                                                       *)
AluOperandSamples == {0, 15, 255}

(* No flag, Carry alone, Auxiliary-Carry alone, every bit.                 *)
AluFlagSamples == {0, 1, 16, 255}

SetupAlu(build, a, d, f) ==
    LET s0 == set_register_pair(new(<<>>, build), HL, MEMORY_SIZE \div 2)
        s1 == set_memory(s0, get_register_pair(s0, HL), d)
        s2 == set_register(s1, B, d)
        s3 == set_register(s2, A, a)
    IN  set_flags(s3, f)

AluInstrs(d) ==
    { I(n, d, 0) : n \in {"AddImmediate", "AddImmediateWithCarry", "SubtractImmediate",
                          "SubtractImmediateWithBorrow", "AndImmediate", "OrImmediate",
                          "XorImmediate", "CompareImmediate"} }
      \cup { I(n, B, 0) : n \in {"AddRegister", "AddRegisterWithCarry", "SubtractRegister",
                                 "SubtractRegisterWithBorrow", "AndRegister", "OrRegister",
                                 "XorRegister", "CompareRegister"} }
      \cup { I(n, 0, 0) : n \in {"AddMemory", "AddMemoryWithCarry", "SubtractMemory",
                                 "SubtractMemoryWithBorrow", "AndMemory", "OrMemory",
                                 "XorMemory", "CompareMemory", "IncrementMemory",
                                 "DecrementMemory", "RotateLeft", "RotateRight",
                                 "RotateLeftThroughCarry", "RotateRightThroughCarry",
                                 "DecimalAdjustAccumulator"} }
      \cup { I(n, A, 0) : n \in {"IncrementRegister", "DecrementRegister"} }

InitAlu ==
    \E build \in BOOLEAN, a \in 0 .. 255, d \in AluOperandSamples, f \in AluFlagSamples :
        SetUp(SetupAlu(build, a, d, f))

NextAlu == \E i \in AluInstrs(get_register(Cpu, B)) : ExecuteOnce(i)

SpecAlu == InitAlu /\ [][NextAlu]_vars

---------------------------------------------------------------------------
(* Claims about the arithmetic and logical instructions, checked under     *)
(* SpecAlu.                                                                *)

AddNames == {"AddImmediate", "AddRegister", "AddMemory", "AddRegisterWithCarry",
             "AddImmediateWithCarry", "AddMemoryWithCarry"}

SubtractNames == {"SubtractImmediate", "SubtractRegister", "SubtractMemory",
                  "SubtractImmediateWithBorrow", "SubtractRegisterWithBorrow",
                  "SubtractMemoryWithBorrow"}

AndNames == {"AndImmediate", "AndRegister", "AndMemory"}

OrNames == {"OrImmediate", "OrRegister", "OrMemory"}

XorNames == {"XorImmediate", "XorRegister", "XorMemory"}

CompareNames == {"CompareImmediate", "CompareRegister", "CompareMemory"}

IncDecNames == {"IncrementRegister", "DecrementRegister", "IncrementMemory",
                "DecrementMemory"}

(* The operand of the instruction executed last: the immediate, the        *)
(* register or the byte HL points at, before the instruction.              *)
OperandOf(i) ==
    IF i.name \in {"AddImmediate", "AddImmediateWithCarry", "SubtractImmediate",
                   "SubtractImmediateWithBorrow", "AndImmediate", "OrImmediate",
                   "XorImmediate", "CompareImmediate"}
    THEN i.x
    ELSE IF i.name \in {"AddRegister", "AddRegisterWithCarry", "SubtractRegister",
                        "SubtractRegisterWithBorrow", "AndRegister", "OrRegister",
                        "XorRegister", "CompareRegister", "IncrementRegister",
                        "DecrementRegister"}
    THEN pre.registers[i.x]
    ELSE get_memory(pre, get_register_pair(pre, HL))

(* The result byte of the instruction executed last: where it stored it,   *)
(* or, for a compare, which stores nothing, accumulator minus operand.     *)
ResultByte ==
    IF instr.name \in CompareNames
    THEN (pre.registers[A] - OperandOf(instr) + 256) % 256
    ELSE IF instr.name \in {"IncrementRegister", "DecrementRegister"}
    THEN registers[instr.x]
    ELSE IF instr.name \in {"IncrementMemory", "DecrementMemory"}
    THEN get_memory(Cpu, get_register_pair(pre, HL))
    ELSE registers[A]

FlagSet(flags, bit) == (flags \div Pow2(bit)) % 2 = 1

OnesIn(byte) == Cardinality({ k \in 0 .. 7 : FlagSet(byte, k) })

(* C13: after an add, subtract, increment, decrement, AND, OR, XOR or      *)
(* compare that completed, with result byte R: Z (bit 6 of F) is set iff   *)
(* R = 0, S (bit 7) iff bit 7 of R is 1, and P (bit 2) iff R has an even   *)
(* number of 1 bits.                                                       *)
C13_ZeroSignParity ==
    (/\ call = "execute"
     /\ instr.name \in AddNames \cup SubtractNames \cup AndNames \cup OrNames
                         \cup XorNames \cup CompareNames \cup IncDecNames
     /\ ~panic) =>
        /\ FlagSet(registers[F], 6) <=> (ResultByte = 0)
        /\ FlagSet(registers[F], 7) <=> (ResultByte >= 128)
        /\ FlagSet(registers[F], 2) <=> (OnesIn(ResultByte) % 2 = 0)

C13_Witness ==
    /\ call = "execute"
    /\ instr = I("SubtractImmediate", 15, 0)
    /\ pre.registers[A] = 22
    /\ pre.registers[F] = 255
    /\ ~panic
    /\ registers[A] = 7
    /\ ~FlagSet(registers[F], 6)
    /\ ~FlagSet(registers[F], 7)
    /\ ~FlagSet(registers[F], 2)

(* C14 as stated: the Auxiliary-Carry (bit 4 of F) left by                 *)
(* set_flags_for_arithmetic is determined by bit 3 of the before value and *)
(* bit 4 of the after value, so the same two bits give the same flag       *)
(* (here: with bit 0 of before or of after flipped); and after an add      *)
(* instruction it is set iff (A & 0xF) + (operand & 0xF) > 0xF.            *)
C14_AuxCarryFromBits3And4 ==
    /\ (/\ call = "execute"
        /\ instr.name \in {"SubtractImmediate", "SubtractRegister", "CompareImmediate",
                           "CompareRegister", "CompareMemory", "IncrementRegister",
                           "DecrementRegister", "AndRegister", "AndMemory"}
        /\ ~panic) =>
          LET before == IF instr.name \in IncDecNames THEN OperandOf(instr)
                        ELSE pre.registers[A]
              after  == ResultByte
          IN  \A b \in {before, BitXor(before, 1)}, a \in {after, BitXor(after, 1)} :
                  get_flag(set_flags_for_arithmetic(pre, b, a, FALSE), "AC")
                      = FlagSet(registers[F], 4)
    /\ (/\ call = "execute"
        /\ instr.name \in {"AddImmediate", "AddRegister", "AddMemory"}
        /\ ~panic) =>
          (FlagSet(registers[F], 4)
              <=> (pre.registers[A] % 16) + (OperandOf(instr) % 16) > 15)

RuleAuxCarry ==
    get_flag(set_flags_for_arithmetic(pre, pre.registers[A], registers[A], FALSE), "AC")

(* C16 as stated: AndRegister, AndMemory and AndImmediate all leave        *)
(* Auxiliary-Carry equal to what the before/after rule computes.           *)
C16_AllAndFormsComputeAuxCarry ==
    (call = "execute" /\ instr.name \in AndNames /\ ~panic) =>
        (FlagSet(registers[F], 4) <=> RuleAuxCarry)

(* C16, amended: AndRegister and AndMemory leave Auxiliary-Carry equal to  *)
(* what the before/after rule computes; AndImmediate forces it to false.   *)
C16_AndRegisterMemoryComputeAuxCarry ==
    (call = "execute" /\ instr.name \in AndNames) =>
        /\ ~panic
        /\ instr.name \in {"AndRegister", "AndMemory"} =>
              (FlagSet(registers[F], 4) <=> RuleAuxCarry)
        /\ instr.name = "AndImmediate" => ~FlagSet(registers[F], 4)

C16_Witness ==
    /\ call = "execute"
    /\ instr = I("AndRegister", B, 0)
    /\ pre.registers[F] = 0
    /\ pre.registers[A] = 3
    /\ pre.registers[B] = 15
    /\ registers[A] = 3
    /\ FlagSet(registers[F], 4)

(* C17: AndImmediate(d) sets A to A & d and leaves Carry and               *)
(* Auxiliary-Carry false, for every A and prior flags.                     *)
C17_AndImmediate ==
    (call = "execute" /\ instr.name = "AndImmediate") =>
        /\ ~panic
        /\ cycles = 7
        /\ \A k \in 0 .. 7 :
              FlagSet(registers[A], k) <=> (FlagSet(pre.registers[A], k) /\ FlagSet(instr.x, k))
        /\ ~FlagSet(registers[F], 0)
        /\ ~FlagSet(registers[F], 4)
        /\ [Cpu EXCEPT !.registers[A] = 0, !.registers[F] = 0]
              = [pre EXCEPT !.registers[A] = 0, !.registers[F] = 0]

C17_Witness ==
    /\ call = "execute"
    /\ instr = I("AndImmediate", 15, 0)
    /\ pre.registers[F] = 255
    /\ pre.registers[A] = 171
    /\ registers[A] = 11
    /\ ~FlagSet(registers[F], 0)
    /\ ~FlagSet(registers[F], 4)

(* C18: the compares leave everything but F unchanged, and leave F as the  *)
(* subtract of the same operand leaves it (SubtractRegister for            *)
(* CompareRegister, SubtractImmediate of the operand for the other two):   *)
(* Zero iff A = operand, Carry iff A < operand.                            *)
C18_CompareIsSubtractWithoutStore ==
    (call = "execute" /\ instr.name \in CompareNames) =>
        LET operand == OperandOf(instr)
            sub == IF instr.name = "CompareRegister"
                   THEN execute(pre, I("SubtractRegister", instr.x, 0))
                   ELSE execute(pre, I("SubtractImmediate", operand, 0))
        IN  /\ ~panic
            /\ Cpu = [pre EXCEPT !.registers[F] = registers[F]]
            /\ ~sub.st.panic
            /\ registers[F] = sub.st.registers[F]
            /\ FlagSet(registers[F], 6) <=> (pre.registers[A] = operand)
            /\ FlagSet(registers[F], 0) <=> (pre.registers[A] < operand)

C18_Witness ==
    /\ call = "execute"
    /\ instr = I("CompareMemory", 0, 0)
    /\ pre.registers[A] = 14
    /\ get_memory(pre, get_register_pair(pre, HL)) = 15
    /\ pre.registers[F] = 0
    /\ registers[A] = 14
    /\ FlagSet(registers[F], 0)
    /\ ~FlagSet(registers[F], 6)

(* C19: RotateLeft sets A to A rotated left by one bit and Carry to the    *)
(* old bit 7; RotateRight sets A to A rotated right by one bit and Carry   *)
(* to the old bit 0; nothing else changes, and the old Carry has no part   *)
(* in the result.                                                          *)
C19_Rotates ==
    (call = "execute" /\ instr.name \in {"RotateLeft", "RotateRight"}) =>
        LET old == pre.registers[A]
            left == instr.name = "RotateLeft"
        IN  /\ ~panic
            /\ cycles = 4
            /\ \A k \in 0 .. 7 :
                  FlagSet(registers[A], k)
                      <=> FlagSet(old, IF left THEN (k + 7) % 8 ELSE (k + 1) % 8)
            /\ FlagSet(registers[F], 0) <=> FlagSet(old, IF left THEN 7 ELSE 0)
            /\ \A k \in 1 .. 7 : FlagSet(registers[F], k) <=> FlagSet(pre.registers[F], k)
            /\ [Cpu EXCEPT !.registers[A] = 0, !.registers[F] = 0]
                  = [pre EXCEPT !.registers[A] = 0, !.registers[F] = 0]

C19_Witness ==
    /\ call = "execute"
    /\ instr.name = "RotateLeft"
    /\ pre.registers[A] = 129
    /\ pre.registers[F] = 0
    /\ registers[A] = 3
    /\ registers[F] = 1

(* C20 as stated: both rotate-through-carry instructions complete for      *)
(* every accumulator and Carry: RotateRightThroughCarry sets bit 7 of A to *)
(* the old Carry, shifts the rest right and sets Carry to the old bit 0;   *)
(* RotateLeftThroughCarry sets bit 0 of A to the old Carry, shifts the     *)
(* rest left and sets Carry to the old bit 7.                              *)
C20_BothRotatesThroughCarry ==
    (/\ call = "execute"
     /\ instr.name \in {"RotateLeftThroughCarry", "RotateRightThroughCarry"}) =>
        LET old == pre.registers[A]
            cy == IF FlagSet(pre.registers[F], 0) THEN 1 ELSE 0
            left == instr.name = "RotateLeftThroughCarry"
        IN  /\ ~panic
            /\ registers[A] = IF left THEN ((old * 2) % 256) + cy ELSE (old \div 2) + (128 * cy)
            /\ FlagSet(registers[F], 0) <=> FlagSet(old, IF left THEN 7 ELSE 0)

---------------------------------------------------------------------------
(* C21: DecimalAdjustAccumulator adds 6 and sets Auxiliary-Carry when the  *)
(* low nibble of A is above 9 or Auxiliary-Carry is set, and adds 60h and  *)
(* sets Carry when the A before the instruction is above 99h or Carry is   *)
(* set; both tests look at the A and flags before the instruction, the sum *)
(* wraps modulo 256, and no flag is cleared. A = 9Ah with no flag gives    *)
(* A = 00h with Carry and Auxiliary-Carry.                                 *)
C21_DecimalAdjust ==
    (call = "execute" /\ instr.name = "DecimalAdjustAccumulator") =>
        LET a    == pre.registers[A]
            ac   == FlagSet(pre.registers[F], 4)
            cy   == FlagSet(pre.registers[F], 0)
            low  == (a % 16) > 9 \/ ac
            high == a > 153 \/ cy
            sum  == a + (IF low THEN 6 ELSE 0) + (IF high THEN 96 ELSE 0)
        IN  /\ ~panic
            /\ cycles = 4
            /\ registers[A] = sum % 256
            /\ FlagSet(registers[F], 4) = low
            /\ FlagSet(registers[F], 0) = high
            /\ (ac => FlagSet(registers[F], 4))
            /\ (cy => FlagSet(registers[F], 0))
            /\ ((a = 154 /\ ~ac /\ ~cy) =>
                    (registers[A] = 0 /\ FlagSet(registers[F], 0)
                        /\ FlagSet(registers[F], 4)))

C21_Witness ==
    /\ call = "execute"
    /\ instr.name = "DecimalAdjustAccumulator"
    /\ pre.registers[A] = 154
    /\ pre.registers[F] = 0
    /\ registers[A] = 0
    /\ FlagSet(registers[F], 0)
    /\ FlagSet(registers[F], 4)


---------------------------------------------------------------------------
(* SpecData: one execute() of a data-transfer, port or 16-bit add          *)
(* instruction on a Cpu set up the way the unit tests do it: the register  *)
(* pairs and sp set, bytes written to the ports by Output instructions,    *)
(* and the display flag taken by the renderer or left set.                 *)

RECURSIVE Outputs(_, _)

(* cpu.set_register(A, d); cpu.execute(Output(port)); for each <<port, d>> *)
Outputs(s, outs) ==
    IF outs = <<>> THEN s
    ELSE Outputs(execute(set_register(s, A, Head(outs)[2]),
                         I("Output", Head(outs)[1], 0)).st,
                 Tail(outs))

(* The program is JMP 1234h, so that address 0 holds a byte other than 0;  *)
(* the last byte of memory holds 77h; the driver has written 5Ah to input  *)
(* port 3 and A5h to input port 2.                                         *)
SetupData(build, spv, pairs, a, f, dirty, outs) ==
    LET s0 == new(<<195, 52, 18>>, build)
        s1 == IF spv = 0 THEN s0 ELSE set_sp(s0, spv)
        s2 == set_register_pair(s1, BC, pairs[1])
        s3 == set_register_pair(s2, DE, pairs[2])
        s4 == set_register_pair(s3, HL, pairs[3])
        s5 == set_memory(s4, MEMORY_SIZE - 1, 119)
        s6 == set_register(Outputs(s5, outs), A, a)
        s7 == set_bus_in(set_bus_in(s6, 3, 90), 2, 165)
    IN  set_display_update(set_flags(s7, f), dirty)

DataInstrs ==
    { I("AddRegisterPairToHL", rp, 0) : rp \in {BC, DE, HL, SP} }
      \cup { I("Output", port, 0) : port \in {2, 4, 3, 5, 8, 255} }
      \cup { I("Input", port, 0) : port \in {3, 0, 1, 2, 8, 255} }
      \cup { I("StoreAccumulatorDirect", addr, 0) :
                addr \in {9216, 9215, 16383, 16384, 4660, 65535} }
      \cup { I("LoadAccumulatorDirect", addr, 0) : addr \in {16383, 16384, 4660, 65535} }
      \cup { I("StoreHLDirect", addr, 0) : addr \in {9215, 16383, 16384, 8192} }
      \cup { I("LoadHLDirect", addr, 0) : addr \in {16382, 16383, 16384, 65535} }
      \cup { I(n, rp, 0) : n \in {"StoreAccumulatorIndirect", "LoadAccumulatorIndirect"},
                           rp \in {BC, DE} }
      \cup { I("MoveToMemory", A, 0), I("MoveToMemoryImmediate", 90, 0),
             I("MoveFromMemory", B, 0), I("IncrementMemory", 0, 0),
             I("DecrementMemory", 0, 0), I("ExchangeSPWithHL", 0, 0),
             I("ExchangeHLWithDE", 0, 0), I("Push", BC, 0), I("Pop", BC, 0),
             I("Call", 256, 0), I("Restart", 1, 0), I("NoOperation", 0, 0),
             I("MoveRegister", B, A), I("CompareMemory", 0, 0) }

(* sp: not set, the two ends of the stack, and (without range checks) the  *)
(* middle of the framebuffer. Pairs BC, DE, HL: the first and last byte of *)
(* the framebuffer and the byte below it; ROM, past the end of memory, the *)
(* framebuffer; values whose sums carry out of bit 15; RAM below the       *)
(* framebuffer, past memory, the last byte of memory.                      *)
InitData ==
    \E build \in BOOLEAN, spv \in {0, STACK_END, STACK_START + 2, 12288},
       pairs \in { <<9216, 16383, 9215>>, <<4660, 16384, 9216>>,
                   <<65280, 255, 32769>>, <<8192, 43981, 16383>> },
       a \in {3, 172}, f \in {0, 255}, dirty \in BOOLEAN,
       outs \in { <<>>, << <<4, 1>>, <<4, 3>> >>,
                  << <<2, 5>>, <<4, 171>>, <<4, 205>> >>,
                  << <<4, 255>>, <<2, 7>>, <<4, 128>>, <<2, 251>> >> } :
        SetUp(SetupData(build, spv, pairs, a, f, dirty, outs))

NextData == \E i \in DataInstrs : ExecuteOnce(i)

SpecData == InitData /\ [][NextData]_vars

---------------------------------------------------------------------------
(* Claims about the 16-bit add, the ports and memory, checked under        *)
(* SpecData.                                                               *)

(* The register pair rp of a Cpu record, read off its fields.              *)
PairOf(s, rp) ==
    IF rp = SP THEN s.sp % 65536
    ELSE s.registers[rp * 2] * 256 + s.registers[rp * 2 + 1]

(* C22: AddRegisterPairToHL(rp) sets HL to (HL + rp) mod 65536 and Carry   *)
(* to the carry out of bit 15, and leaves the other flags, the registers   *)
(* outside H and L, sp, pc and memory as they were.                        *)
C22_AddRegisterPairToHL ==
    (call = "execute" /\ instr.name = "AddRegisterPairToHL") =>
        LET sum == PairOf(pre, HL) + PairOf(pre, instr.x)
        IN  /\ ~panic
            /\ cycles = 10
            /\ PairOf(Cpu, HL) = sum % 65536
            /\ FlagSet(registers[F], 0) = (sum > 65535)
            /\ \A bit \in 1 .. 7 :
                   FlagSet(registers[F], bit) = FlagSet(pre.registers[F], bit)
            /\ \A r \in {B, C, D, E, A} : registers[r] = pre.registers[r]
            /\ sp = pre.sp
            /\ pc = pre.pc
            /\ memory = pre.memory

C22_Witness ==
    /\ call = "execute"
    /\ instr = I("AddRegisterPairToHL", BC, 0)
    /\ PairOf(pre, HL) = 32769
    /\ PairOf(pre, BC) = 65280
    /\ PairOf(Cpu, HL) = 32513
    /\ pre.registers[F] = 0
    /\ registers[F] = 1

(* C23: Output(4) with d in A makes shift (d << 8) | (shift >> 8);         *)
(* Output(2) makes offset the low three bits of A; Input(3) loads A with   *)
(* the high byte of (shift << offset) cut to 16 bits. After 01h and 03h    *)
(* were written to port 4, with offset 0, Input(3) gives 03h. The ports   *)
(* are those of the port arrays, 0 to 7.                                   *)
C23_ShiftRegister ==
    /\ (call = "execute" /\ instr.name = "Output" /\ instr.x < NPORTS) =>
          LET d == pre.registers[A]
          IN  /\ ~panic
              /\ shift = IF instr.x = 4 THEN d * 256 + (pre.shift \div 256)
                         ELSE pre.shift
              /\ offset = IF instr.x = 2 THEN d % 8 ELSE pre.offset
              /\ bus_out = [pre.bus_out EXCEPT ![instr.x] = d]
              /\ registers = pre.registers
    /\ (call = "execute" /\ instr = I("Input", 3, 0)) =>
          /\ ~panic
          /\ registers[A] = ((pre.shift * Pow2(pre.offset)) % 65536) \div 256
          /\ shift = pre.shift
          /\ offset = pre.offset
          /\ ((pre.shift = 769 /\ pre.offset = 0) => registers[A] = 3)

C23_Witness ==
    /\ call = "execute"
    /\ instr = I("Input", 3, 0)
    /\ pre.bus_out[4] = 3
    /\ pre.shift = 769
    /\ pre.offset = 0
    /\ pre.registers[A] = 172
    /\ registers[A] = 3

(* The addresses instruction i reads or writes on the Cpu s, in the order  *)
(* of the accesses, and those of them it writes.                           *)
Accesses(s, i) ==
    CASE i.name \in {"LoadAccumulatorDirect", "StoreAccumulatorDirect"} -> <<i.x>>
      [] i.name \in {"LoadHLDirect", "StoreHLDirect"} -> <<i.x, i.x + 1>>
      [] i.name \in {"LoadAccumulatorIndirect", "StoreAccumulatorIndirect"} ->
            <<PairOf(s, i.x)>>
      [] i.name \in {"MoveToMemory", "MoveToMemoryImmediate", "MoveFromMemory",
                     "IncrementMemory", "DecrementMemory", "CompareMemory"} ->
            <<PairOf(s, HL)>>
      [] i.name = "ExchangeSPWithHL" -> <<s.sp, s.sp + 1>>
      [] i.name = "Pop" -> <<s.sp, s.sp + 1>>
      [] i.name \in {"Push", "Call", "Restart"} -> <<s.sp - 1, s.sp - 2>>
      [] OTHER -> <<>>

WriterNames ==
    {"StoreAccumulatorDirect", "StoreHLDirect", "StoreAccumulatorIndirect",
     "MoveToMemory", "MoveToMemoryImmediate", "IncrementMemory", "DecrementMemory",
     "ExchangeSPWithHL", "Push", "Call", "Restart"}

Writes(s, i) == IF i.name \in WriterNames THEN Accesses(s, i) ELSE <<>>

WritesFramebuffer(s, i) ==
    \E k \in 1 .. Len(Writes(s, i)) : Writes(s, i)[k] \in FRAMEBUFFER

(* C24: the display flag after an instruction is true exactly when it was  *)
(* true before or the instruction wrote a byte inside the framebuffer; an  *)
(* instruction that aborts sets it only after such a write.                *)
C24_DisplayFlag ==
    call = "execute" =>
        /\ ~panic =>
              display_update = (pre.display_update \/ WritesFramebuffer(pre, instr))
        /\ panic =>
              (display_update => (pre.display_update \/ WritesFramebuffer(pre, instr)))

C24_Witness ==
    /\ call = "execute"
    /\ ~panic
    /\ instr = I("MoveToMemory", A, 0)
    /\ PairOf(pre, HL) = 9216
    /\ ~pre.display_update
    /\ display_update


(* The instructions whose memory accesses go through an operand address or *)
(* a register pair.                                                        *)
AddressedNames ==
    {"LoadAccumulatorDirect", "StoreAccumulatorDirect", "LoadHLDirect", "StoreHLDirect",
     "LoadAccumulatorIndirect", "StoreAccumulatorIndirect", "MoveToMemory",
     "MoveToMemoryImmediate", "MoveFromMemory", "IncrementMemory", "DecrementMemory",
     "CompareMemory"}

(* The first access of acc outside the 16 KiB of memory, or 0.             *)
FirstOutside(acc) ==
    IF \E k \in 1 .. Len(acc) : acc[k] \notin MEMORY
    THEN CHOOSE k \in 1 .. Len(acc) :
            acc[k] \notin MEMORY /\ \A j \in 1 .. (k - 1) : acc[j] \in MEMORY
    ELSE 0

SameExceptAt(m1, m2, addr) ==
    \A a \in (DOMAIN m1 \cup DOMAIN m2) \ {addr} :
        (IF a \in DOMAIN m1 THEN m1[a] ELSE 0) = (IF a \in DOMAIN m2 THEN m2[a] ELSE 0)

(* C30: an instruction whose access falls outside the 16 KiB of memory     *)
(* aborts in every build. When the first access fails, nothing of the Cpu  *)
(* has changed; when the second access of LHLD or SHLD fails, only what    *)
(* the first access did has changed (L loaded, or the byte at the operand  *)
(* address stored), so nothing is read from or written to a wrapped,       *)
(* mirrored or clamped address.                                            *)
C30_OutsideMemoryAborts ==
    (call = "execute" /\ instr.name \in AddressedNames
        /\ FirstOutside(Accesses(pre, instr)) # 0) =>
        LET acc == Accesses(pre, instr)
            k   == FirstOutside(acc)
        IN  /\ panic
            /\ cycles = 0
            /\ <<pc, sp, bus_in, bus_out, shift, offset, interruptable>>
                 = <<pre.pc, pre.sp, pre.bus_in, pre.bus_out, pre.shift, pre.offset,
                     pre.interruptable>>
            /\ k = 1 => /\ memory = pre.memory
                        /\ registers = pre.registers
                        /\ display_update = pre.display_update
            /\ k = 2 => /\ SameExceptAt(memory, pre.memory, acc[1])
                        /\ \A r \in 0 .. (NREGS - 1) \ {L} : registers[r] = pre.registers[r]
                        /\ instr.name = "StoreHLDirect" => registers = pre.registers
                        /\ instr.name = "LoadHLDirect" => memory = pre.memory

C30_Witness ==
    /\ call = "execute"
    /\ instr = I("StoreHLDirect", MEMORY_SIZE - 1, 0)
    /\ pre.registers[L] = 1
    /\ pre.registers[H] = 128
    /\ panic
    /\ memory[MEMORY_SIZE - 1] = 1
    /\ memory[0] = 195


---------------------------------------------------------------------------
(* Claims about construction and the address ranges, checked under Spec.   *)

(* What Cpu::new(program) leaves apart from the input ports: the program   *)
(* at address 0, every other byte 0, registers, flags, pc, sp, output      *)
(* ports, shift register and offset 0, the interrupt gate closed.          *)
NewBasics ==
    /\ ~panic
    /\ \A a \in 0 .. (Len(arg) - 1) : get_memory(Cpu, a) = arg[a + 1]
    /\ \A a \in DOMAIN memory : a < Len(arg) /\ memory[a] # 0
    /\ registers = [r \in 0 .. (NREGS - 1) |-> 0]
    /\ pc = 0
    /\ sp = 0
    /\ bus_out = [p \in 0 .. (NPORTS - 1) |-> 0]
    /\ shift = 0
    /\ offset = 0
    /\ ~interruptable

(* C26, as claimed: after Cpu::new every entry of the input-port array is  *)
(* 0 as well.                                                              *)
C26_NewZeroesEverything ==
    call = "new" => (NewBasics /\ bus_in = [p \in 0 .. (NPORTS - 1) |-> 0])

(* C26: Cpu::new(program) copies the program to address 0 and leaves the   *)
(* rest of memory, the registers and flags, pc, sp, the output ports, the  *)
(* shift register and the offset 0 and the interrupt gate closed; input    *)
(* port 0 holds 0Eh and input port 1 holds 08h, the other input ports 0,   *)
(* and the display flag is set.                                            *)
C26_NewZeroesAllButInputs ==
    call = "new" =>
        /\ NewBasics
        /\ bus_in = [p \in 0 .. (NPORTS - 1) |-> IF p = 0 THEN 14 ELSE IF p = 1 THEN 8 ELSE 0]
        /\ display_update

C26_Witness ==
    /\ call = "new"
    /\ Len(arg) = 3
    /\ memory = (0 :> 195) @@ (1 :> 52) @@ (2 :> 18)
    /\ bus_in[0] = 14
    /\ bus_in[1] = 8
    /\ ~interruptable

(* The first value instruction i would store in sp on the Cpu s (sp itself *)
(* when it stores none).                                                   *)
SpMove(s, i) ==
    CASE i.name = "LoadRegisterPairImmediate" /\ i.x = SP -> i.y
      [] i.name = "IncrementRegisterPair" /\ i.x = SP -> s.sp + 1
      [] i.name = "DecrementRegisterPair" /\ i.x = SP -> s.sp - 1
      [] i.name = "Push" /\ i.x \in {BC, DE, HL} -> s.sp - 1
      [] i.name \in {"Call", "Restart", "PushProcessorStatusWord"} -> s.sp - 1
      [] i.name = "Pop" /\ i.x \in {BC, DE, HL} -> s.sp + 2
      [] i.name = "Return" -> s.sp + 2
      [] i.name = "PopProcessorStatusWord" -> s.sp + 1
      [] OTHER -> s.sp

(* C27, as claimed: sp lies within the stack range in every reachable      *)
(* state, from construction on.                                            *)
C27_SpAlwaysInStack == sp \in STACK

(* C27: sp is 0, outside the stack range, after construction. With range   *)
(* checks enabled every later value of sp lies within the stack range, the *)
(* state between the two byte pushes of a 16-bit push included, and an     *)
(* instruction that would move sp outside it aborts and leaves sp as it    *)
(* was.                                                                    *)
C27_SpInStackOnceSet ==
    /\ call = "new" => (sp = 0 /\ sp \notin STACK)
    /\ debug => (sp \in STACK \/ (sp = 0 /\ pre.sp = 0))
    /\ debug => (push_data(Cpu, 0).panic \/ push_data(Cpu, 0).sp \in STACK)
    /\ (debug /\ call = "step" /\ ~mid.panic /\ SpMove(mid, instr) \notin STACK
          /\ SpMove(mid, instr) # mid.sp)
        => (panic /\ sp = mid.sp)

C27_Witness ==
    /\ debug
    /\ call = "step"
    /\ instr = I("IncrementRegisterPair", SP, 0)
    /\ pre.sp = STACK_END
    /\ panic
    /\ sp = STACK_END

(* The address a jump instruction i would store in pc on the Cpu s (pc     *)
(* itself when it stores none).                                            *)
PcTarget(s, i) ==
    CASE i.name \in {"Jump", "Call"} -> i.x
      [] i.name = "JumpHLIndirect" -> PairOf(s, HL)
      [] i.name = "Restart" -> 8 * i.x
      [] i.name = "Return" /\ s.sp + 1 \in MEMORY ->
            get_memory(s, s.sp) + 256 * get_memory(s, s.sp + 1)
      [] OTHER -> s.pc

(* C28, as claimed: pc lies within ROM in every reachable state.           *)
C28_PcAlwaysInRom == pc \in ROM

(* C28: with range checks enabled, pc lies within ROM in every reachable   *)
(* state, and a jump, call, return or PCHL to an address outside ROM, or a *)
(* fetch that advances past the last ROM address, aborts and leaves pc     *)
(* inside ROM.                                                             *)
C28_PcInRomWithRangeChecks ==
    /\ debug => pc \in ROM
    /\ (debug /\ call = "step" /\ ~mid.panic /\ PcTarget(mid, instr) \notin ROM)
        => (panic /\ pc = mid.pc)
    /\ (debug /\ call = "step" /\ mid.panic) => (panic /\ pc \in ROM)

C28_Witness ==
    /\ debug
    /\ call = "step"
    /\ instr = I("Return", 0, 0)
    /\ PcTarget(mid, instr) = MEMORY_SIZE \div 2
    /\ panic
    /\ pc = mid.pc
    /\ sp = STACK_END

(* C29: with range checks enabled no call changes a byte at a ROM address, *)
(* so every ROM byte stays what construction made it, and an instruction   *)
(* that writes memory aborts when an address it writes is outside RAM.     *)
C29_RomUnchanged ==
    /\ debug =>
          \A a \in (DOMAIN memory \cup DOMAIN pre.memory) \cap ROM :
              get_memory(Cpu, a) = get_memory(pre, a)
    /\ (debug /\ call = "step" /\ ~mid.panic
          /\ \E k \in 1 .. Len(Writes(mid, instr)) : Writes(mid, instr)[k] \notin RAM)
        => panic

C29_Witness ==
    /\ debug
    /\ call = "step"
    /\ instr = I("StoreAccumulatorDirect", 4096, 0)
    /\ pre.registers[A] = 85
    /\ panic
    /\ get_memory(Cpu, 4096) = 0


---------------------------------------------------------------------------
(* SpecDisplay: one display(x, y) call, for every logical pixel, on a Cpu  *)
(* whose framebuffer holds a few bytes: in its first and last byte, at the *)
(* two ends of the first column and the start of the second, and inside.   *)

InitDisplay ==
    \E build \in BOOLEAN :
        LET s1 == set_memory(new(<<>>, build), 9216, 129)
            s2 == set_memory(s1, 9217, 1)
            s3 == set_memory(s2, 9216 + 31, 64)
            s4 == set_memory(s3, 9216 + 32, 255)
            s5 == set_memory(s4, 9216 + 3615, 165)
            s6 == set_memory(s5, MEMORY_SIZE - 32, 8)
        IN  SetUp(set_memory(s6, MEMORY_SIZE - 1, 130))

(* cpu.display(x, y), once                                                 *)
Display(x, y) ==
    /\ call = "setup"
    /\ LET r == display(Cpu, x, y)
       IN  /\ Becomes(r.st)
           /\ cycles' = r.val
    /\ call' = "display"
    /\ arg' = <<x, y>>
    /\ instr' = NoInstruction
    /\ pre' = Cpu
    /\ mid' = Cpu
    /\ ncalls' = ncalls + 1
    /\ UNCHANGED <<nirq, gate_hist, run>>

NextDisplay ==
    /\ call = "setup"
    /\ \E x \in 0 .. (DISPLAY_WIDTH - 1), y \in 0 .. (DISPLAY_HEIGHT - 1) : Display(x, y)

SpecDisplay == InitDisplay /\ [][NextDisplay]_vars

(* C25: for every pixel (x, y) of the display, display(x, y) returns bit   *)
(* 7 - (y mod 8) of the framebuffer byte at index                          *)
(* x * (height / 8) + (height / 8 - y / 8) - 1; the index lies inside the  *)
(* framebuffer, 2400h..3FFFh, and the call changes nothing.                *)
C25_DisplayPixel ==
    call = "display" =>
        LET x     == arg[1]
            y     == arg[2]
            index == x * (DISPLAY_HEIGHT \div 8) + (DISPLAY_HEIGHT \div 8 - y \div 8) - 1
        IN  /\ ~panic
            /\ Cpu = pre
            /\ 9216 + index \in FRAMEBUFFER
            /\ 9216 + index \in 9216 .. 16383
            /\ cycles = FlagSet(get_memory(pre, 9216 + index), 7 - (y % 8))

C25_Witness ==
    /\ call = "display"
    /\ arg = <<DISPLAY_WIDTH - 1, 0>>
    /\ get_memory(pre, MEMORY_SIZE - 1) = 130
    /\ cycles = TRUE


---------------------------------------------------------------------------
(* Claims about what execute implements, checked under Spec.               *)

(* The addresses instruction i uses on the Cpu s are in range: the bytes   *)
(* it reads are in memory and those it writes in RAM, the values it stores *)
(* in sp and pc are in the stack range and in ROM, its port is one of the  *)
(* eight, and a conditional call or return has room on the stack.          *)
AddressesInRange(s, i) ==
    /\ \A k \in 1 .. Len(Accesses(s, i)) : Accesses(s, i)[k] \in MEMORY
    /\ \A k \in 1 .. Len(Writes(s, i)) : Writes(s, i)[k] \in RAM
    /\ SpMove(s, i) \in STACK \cup {s.sp}
    /\ PcTarget(s, i) \in ROM
    /\ i.name \in {"Input", "Output"} => i.x \in 0 .. (NPORTS - 1)
    /\ i.name \in {"ConditionalCall", "ConditionalReturn", "PushProcessorStatusWord",
                   "PopProcessorStatusWord"}
         => (s.sp - 2 \in STACK /\ s.sp + 2 \in STACK)
    /\ i.name = "ConditionalReturn"
         => get_memory(s, s.sp) + 256 * get_memory(s, s.sp + 1) \in ROM
    /\ i.name = "ConditionalCall" => i.y \in ROM

(* C31 as stated: a step() that decodes an instruction other than Err, in  *)
(* a state where the addresses of the instruction are in range, returns a  *)
(* cycle count and does not abort.                                         *)
C31_EveryDecodedInstructionImplemented ==
    (call = "step" /\ ~mid.panic /\ instr.name # "Err" /\ AddressesInRange(mid, instr))
        => (~panic /\ cycles >= 4)

(* C32: a step() on an opcode that decodes to Err(op) aborts: it returns   *)
(* no cycle count, pc is left just past the opcode byte, and nothing else  *)
(* of the Cpu has changed, so the next instruction is not executed.        *)
C32_ErrAborts ==
    (call = "step" /\ ~mid.panic /\ instr.name = "Err") =>
        /\ panic
        /\ cycles = 0
        /\ instr.x = get_memory(pre, pre.pc)
        /\ pc = pre.pc + 1
        /\ Cpu = [pre EXCEPT !.pc = pre.pc + 1, !.panic = TRUE]

C32_Witness ==
    /\ call = "step"
    /\ instr = I("Err", 8, 0)
    /\ get_memory(pre, pre.pc) = 8
    /\ get_memory(pre, pre.pc + 1) = 52
    /\ panic
    /\ cycles = 0
    /\ pc = pre.pc + 1


---------------------------------------------------------------------------
(* C33 as stated, checked under SpecAlu: AddRegisterWithCarry(r) leaves    *)
(* A = (A + r + CY) mod 256 with Carry set iff A + r + CY > 255, and       *)
(* SubtractImmediateWithBorrow(d) leaves A = (A - d - CY) mod 256 with     *)
(* Carry set iff A < d + CY, for every operand, FFh with Carry set         *)
(* included, without aborting.                                             *)
C33_CarryInExact ==
    (call = "execute"
       /\ instr.name \in {"AddRegisterWithCarry", "SubtractImmediateWithBorrow"}) =>
        LET a  == pre.registers[A]
            cy == IF FlagSet(pre.registers[F], 0) THEN 1 ELSE 0
            d  == IF instr.name = "AddRegisterWithCarry" THEN pre.registers[instr.x]
                  ELSE instr.x
        IN  /\ ~panic
            /\ instr.name = "AddRegisterWithCarry" =>
                  /\ registers[A] = (a + d + cy) % 256
                  /\ FlagSet(registers[F], 0) = (a + d + cy > 255)
            /\ instr.name = "SubtractImmediateWithBorrow" =>
                  /\ registers[A] = (a - d - cy + 512) % 256
                  /\ FlagSet(registers[F], 0) = (a < d + cy)


---------------------------------------------------------------------------
(* C34, checked under Spec: a step() of Call(addr) pushes the address of   *)
(* the instruction after the call, high byte at sp - 1 and low byte at     *)
(* sp - 2, sets pc to addr and returns 17; a step() of Return pops the     *)
(* word at sp into pc and returns 10; neither changes a register or flag.  *)
(* In the programs LXI SP,2400h; CALL 0008h with a RET at 0008h, directly  *)
(* or after PUSH B and POP B, the RET that finds sp where the CALL left it *)
(* resumes at 0006h, after the CALL, with sp back at 2400h.                *)
C34_CallReturn ==
    /\ (call = "step" /\ instr.name = "Call" /\ ~panic) =>
          /\ mid.pc = pre.pc + 3
          /\ sp = pre.sp - 2
          /\ get_memory(Cpu, pre.sp - 1) = mid.pc \div 256
          /\ get_memory(Cpu, pre.sp - 2) = mid.pc % 256
          /\ \A a \in (DOMAIN memory \cup DOMAIN pre.memory) \ {pre.sp - 1, pre.sp - 2} :
                 get_memory(Cpu, a) = get_memory(pre, a)
          /\ pc = instr.x
          /\ cycles = 17
          /\ registers = pre.registers
    /\ (call = "step" /\ instr.name = "Return" /\ ~panic) =>
          /\ pc = get_memory(pre, pre.sp) + 256 * get_memory(pre, pre.sp + 1)
          /\ sp = pre.sp + 2
          /\ cycles = 10
          /\ registers = pre.registers
          /\ memory = pre.memory
          /\ (get_memory(pre, 0) = 49 /\ get_memory(pre, 3) = 205
                /\ get_memory(pre, 4) = 8 /\ get_memory(pre, 8) \in {201, 197}
                /\ pre.sp = STACK_END - 2)
              => (pc = 6 /\ sp = STACK_END)

C34_Witness ==
    /\ call = "step"
    /\ instr.name = "Return"
    /\ ~panic
    /\ get_memory(Cpu, 3) = 205
    /\ get_memory(Cpu, 10) = 201
    /\ pre.pc = 10
    /\ pc = 6
    /\ sp = STACK_END
    /\ get_memory(Cpu, STACK_END - 2) = 6

---------------------------------------------------------------------------
(* SpecPair: one set_register_pair(rp, data) call followed by              *)
(* get_register_pair(rp), for each of the four pairs and every 16-bit      *)
(* value, on a Cpu whose eight register cells hold eight different bytes.  *)

SetupPair(build) ==
    LET s0 == new(<<>>, build)
        s1 == set_register(set_register(s0, B, 17), C, 34)
        s2 == set_register(set_register(s1, D, 51), E, 68)
        s3 == set_register(set_register(s2, H, 85), L, 102)
    IN  set_flags(set_register(s3, A, 136), 215)

InitPair == \E build \in BOOLEAN : SetUp(SetupPair(build))

(* cpu.set_register_pair(rp, data); cpu.get_register_pair(rp)              *)
SetRegisterPair(rp, data) ==
    /\ call = "setup"
    /\ LET s == set_register_pair(Cpu, rp, data)
       IN  /\ Becomes(s)
           /\ cycles' = get_register_pair(s, rp)
    /\ call' = "set_register_pair"
    /\ arg' = <<rp, data>>
    /\ instr' = NoInstruction
    /\ pre' = Cpu
    /\ mid' = Cpu
    /\ ncalls' = ncalls + 1
    /\ UNCHANGED <<nirq, gate_hist, run>>

NextPair ==
    /\ call = "setup"
    /\ \E rp \in {BC, DE, HL, SP}, data \in 0 .. 65535 : SetRegisterPair(rp, data)

SpecPair == InitPair /\ [][NextPair]_vars

(* C35: set_register_pair(rp, v) for BC, DE, HL and every 16-bit v stores  *)
(* the high byte of v in cell 2*rp and the low byte in cell 2*rp + 1,      *)
(* changes no other register cell and not sp, and get_register_pair(rp)    *)
(* returns v; for SP, when the call completes, v is in sp, every register  *)
(* cell is as before, and get_register_pair(SP) returns v.                 *)
C35_RegisterPair ==
    call = "set_register_pair" =>
        LET rp == arg[1]
            v  == arg[2]
        IN  IF rp \in {BC, DE, HL}
            THEN /\ ~panic
                 /\ registers[2 * rp] = v \div 256
                 /\ registers[2 * rp + 1] = v % 256
                 /\ \A c \in DOMAIN registers \ {2 * rp, 2 * rp + 1} :
                        registers[c] = pre.registers[c]
                 /\ sp = pre.sp
                 /\ cycles = v
                 /\ memory = pre.memory /\ pc = pre.pc
            ELSE /\ panic <=> (debug /\ v \notin STACK)
                 /\ registers = pre.registers
                 /\ memory = pre.memory /\ pc = pre.pc
                 /\ ~panic => (sp = v /\ get_sp(Cpu) = v /\ cycles = v)

(* HL := 1234h: H = 12h, L = 34h, and the other six cells as set up.       *)
C35_Witness ==
    /\ call = "set_register_pair" /\ arg = <<HL, 4660>> /\ ~panic
    /\ registers[H] = 18 /\ registers[L] = 52 /\ cycles = 4660
    /\ registers[B] = 17 /\ registers[E] = 68 /\ registers[A] = 136

---------------------------------------------------------------------------
(* The (before, after, carry) triple these instructions hand to            *)
(* set_flags_for_arithmetic, from the state before and after execute.      *)
ArithmeticTripleNames ==
    {"SubtractImmediate", "CompareImmediate", "IncrementRegister", "DecrementRegister"}

ArithmeticTriple ==
    LET before == pre.registers[A]
        after  == IF instr.name = "CompareImmediate" THEN (before - instr.x) % 256
                  ELSE registers[A]
        carry  == CASE instr.name \in {"SubtractImmediate", "CompareImmediate"} ->
                           before < instr.x
                    [] OTHER -> get_flag(pre, "CY")
    IN  <<before, after, carry>>

(* Bits 0, 2, 4, 6, 7 of a flags byte (CY, P, AC, Z, S) and bits 1, 3, 5.  *)
WrittenFlagBits(flags) == BitAnd(flags, 213)

OtherFlagBits(flags) == BitAnd(flags, 42)

(* Previous flags bytes: none, all, the written bits only, the other bits *)
(* only, and the two alternating patterns.                                 *)
PreviousFlagSamples == {0, 255, 213, 42, 170, 85}

(* C36: the flags an instruction leaves are those set_flags_for_arithmetic *)
(* computes for its (before, after, carry) triple; computing them a second *)
(* time for the same triple changes nothing; starting from other previous  *)
(* flags bytes the five written bits come out the same and bits 1, 3 and 5 *)
(* stay as they were.                                                      *)
C36_FlagsIdempotent ==
    (call = "execute" /\ ~panic /\ instr.name \in ArithmeticTripleNames) =>
        LET t == ArithmeticTriple
        IN  /\ registers[F] =
                  get_flags(set_flags_for_arithmetic(pre, t[1], t[2], t[3]))
            /\ set_flags_for_arithmetic(Cpu, t[1], t[2], t[3]) = Cpu
            /\ OtherFlagBits(registers[F]) = OtherFlagBits(pre.registers[F])
            /\ \A f \in PreviousFlagSamples :
                  LET s == set_flags_for_arithmetic(set_flags(Cpu, f), t[1], t[2], t[3])
                  IN  /\ WrittenFlagBits(get_flags(s)) = WrittenFlagBits(registers[F])
                      /\ OtherFlagBits(get_flags(s)) = OtherFlagBits(f)
                      /\ s = set_flags(Cpu, get_flags(s))

(* SUI 0Fh on A = 00h with every flag bit set: the result F1h clears Z, P  *)
(* and AC, sets S and CY, and leaves bits 1, 3, 5 set.                     *)
C36_Witness ==
    /\ call = "execute" /\ ~panic /\ instr = I("SubtractImmediate", 15, 0)
    /\ pre.registers[A] = 0 /\ pre.registers[F] = 255
    /\ registers[A] = 241 /\ registers[F] = 171

---------------------------------------------------------------------------
(* The byte an increment or decrement works on, in state s: the register   *)
(* the instruction names, or the byte HL addresses.                        *)
IncDecOperand(s) ==
    IF instr.name \in {"IncrementRegister", "DecrementRegister"}
    THEN s.registers[instr.x]
    ELSE get_memory(s, get_register_pair(pre, HL))

EvenParity(v) == Cardinality({ k \in 0 .. 7 : (v \div (2 ^ k)) % 2 = 1 }) % 2 = 0

(* C37: INR r, DCR r, INR M and DCR M complete, leave (before + 1) mod 256 *)
(* or (before - 1) mod 256 in the operand, set Zero, Sign and Parity from  *)
(* that result and leave Carry as it was, the wraps FFh -> 00h and         *)
(* 00h -> FFh included; they take 5 cycles on a register and 10 on memory  *)
(* and change no other register, no other byte of memory, not pc, not sp.  *)
C37_IncDecKeepCarry ==
    (call = "execute" /\ instr.name \in IncDecNames) =>
        LET before == IncDecOperand(pre)
            after  == IncDecOperand(Cpu)
            onreg  == instr.name \in {"IncrementRegister", "DecrementRegister"}
        IN  /\ ~panic
            /\ after = IF instr.name \in {"IncrementRegister", "IncrementMemory"}
                       THEN (before + 1) % 256
                       ELSE (before + 256 - 1) % 256
            /\ get_flag(Cpu, "Z") = (after = 0)
            /\ get_flag(Cpu, "S") = (after >= 128)
            /\ get_flag(Cpu, "P") = EvenParity(after)
            /\ get_flag(Cpu, "CY") = get_flag(pre, "CY")
            /\ cycles = IF onreg THEN 5 ELSE 10
            /\ \A c \in DOMAIN registers \ {F} :
                   (~onreg \/ c # instr.x) => registers[c] = pre.registers[c]
            /\ onreg => memory = pre.memory
            /\ ~onreg => SameExceptAt(memory, pre.memory, get_register_pair(pre, HL))
            /\ pc = pre.pc /\ sp = pre.sp

(* INR A on FFh with Carry clear gives 00h, Zero set, Carry still clear.   *)
C37_Witness ==
    /\ call = "execute" /\ instr = I("IncrementRegister", A, 0) /\ ~panic
    /\ pre.registers[A] = 255 /\ registers[A] = 0
    /\ ~get_flag(pre, "CY") /\ ~get_flag(Cpu, "CY") /\ get_flag(Cpu, "Z")

---------------------------------------------------------------------------
(* The operands of an instruction that are of type Register.               *)
RegisterOperands(i) ==
    CASE i.name = "MoveRegister" -> {i.x, i.y}
      [] i.name \in {"MoveFromMemory", "MoveToMemory", "MoveImmediate", "AddRegister",
                     "AddRegisterWithCarry", "SubtractRegister",
                     "SubtractRegisterWithBorrow", "IncrementRegister",
                     "DecrementRegister", "AndRegister", "XorRegister", "OrRegister",
                     "CompareRegister"} -> {i.x}
      [] OTHER -> {}

PairValid(i) == i \notin InvalidPairInstrs /\ F \notin RegisterOperands(i)

(* C38: for each of the 256 opcodes the decoder's result is none of        *)
(* Push(SP), Pop(SP), LoadAccumulatorIndirect(HL or SP),                   *)
(* StoreAccumulatorIndirect(HL or SP) and has no operand F; and no step()  *)
(* executes such an instruction.                                           *)
C38_DecoderPairsValid ==
    /\ call = "new" => \A op \in 0 .. 255 : PairValid(decode(Cpu, op).instr)
    /\ call = "step" => PairValid(instr)

(* PUSH B (C5h) decoded and executed by a step(), sp two lower.            *)
C38_Witness ==
    /\ call = "step" /\ instr = I("Push", BC, 0) /\ ~panic
    /\ pre.pc = 8 /\ get_memory(pre, 8) = 197 /\ sp = pre.sp - 2

---------------------------------------------------------------------------
(* C39: IN p and OUT p with p of 8 or more abort and leave the whole Cpu,  *)
(* A, the port arrays and the shift register among it, as it was. For      *)
(* p < 8, OUT p stores A in bus_out[p], which get_bus_out(p) returns, and  *)
(* changes no other output port, no input port and not A; IN p for p other *)
(* than 3 loads bus_in[p] into A; IN 3 loads the shift register's window   *)
(* whatever bus_in[3] holds. Both take 10 cycles.                          *)
C39_Ports ==
    (call = "execute" /\ instr.name \in {"Input", "Output"}) =>
        LET p == instr.x
        IN  IF p >= NPORTS
            THEN panic /\ [Cpu EXCEPT !.panic = FALSE] = pre
            ELSE /\ ~panic
                 /\ cycles = 10
                 /\ bus_in = pre.bus_in
                 /\ instr.name = "Output" =>
                       /\ bus_out[p] = pre.registers[A]
                       /\ get_bus_out(Cpu, p) = Fetched(Cpu, pre.registers[A])
                       /\ \A q \in DOMAIN bus_out \ {p} : bus_out[q] = pre.bus_out[q]
                       /\ registers = pre.registers
                 /\ instr.name = "Input" =>
                       /\ bus_out = pre.bus_out /\ shift = pre.shift /\ offset = pre.offset
                       /\ p # 3 => registers[A] = pre.bus_in[p]
                       /\ p = 3 =>
                             /\ registers[A] =
                                   ((pre.shift * (2 ^ pre.offset)) % 65536) \div 256
                             /\ \A d \in {0, 255} :
                                   execute([pre EXCEPT !.bus_in[3] = d], instr).st.registers[A]
                                     = registers[A]

(* IN 3 with 5Ah stored for port 3 and the shift register at CDABh, offset *)
(* 5: A becomes B5h.                                                       *)
C39_Witness ==
    /\ call = "execute" /\ instr = I("Input", 3, 0) /\ ~panic
    /\ pre.bus_in[3] = 90 /\ pre.shift = 52651 /\ pre.offset = 5
    /\ registers[A] = 181

---------------------------------------------------------------------------
(* SpecRun: one call of Emu::run_cpu(cycles_per_frame) on a new Cpu. The   *)
(* variable run holds the locals of the call: i, the element of [1, 2] the *)
(* for loop is at (3 once the loop is over), and cycles, the u32 count of  *)
(* the while loop. Kept for the claim: since, the cycles all step() calls  *)
(* returned since the last interrupt request, and requests, the vector of  *)
(* each request with the value of since when it was made.                  *)

(* NOPs only; an undefined opcode; EI with sp never set, so that the RST   *)
(* of the first request aborts; LXI SP,2400h, EI, JMP 0004h with EI, RET   *)
(* at 0008h and at 0010h.                                                  *)
RunPrograms ==
    { <<>>, <<8>>, <<251>>,
      <<49, 0, 36, 251, 195, 4, 0, 0, 251, 201, 0, 0, 0, 0, 0, 0, 251, 201>> }

(* freq / fps of a few frequencies: halves of 0, 0, 4, 4, 10, 16 and 32.   *)
RunCyclesPerFrame == {0, 1, 8, 9, 20, 33, 64}

InitRun ==
    \E program \in RunPrograms, build \in BOOLEAN, cpf \in RunCyclesPerFrame :
        /\ Starts(new(program, build))
        /\ call = "new"
        /\ arg = 0
        /\ instr = NoInstruction
        /\ cycles = 0
        /\ pre = new(program, build)
        /\ mid = new(program, build)
        /\ ncalls = 0
        /\ nirq = 0
        /\ gate_hist = GateStart
        /\ run = [cycles_per_frame |-> cpf, i |-> 1, cycles |-> 0, since |-> 0,
                  requests |-> <<>>]

(* cycles += self.cpu.step(), r being what the step gave. The u32 sum     *)
(* does not wrap: cycles is below cycles_per_frame / 2, 7FFFFFFFh at most, *)
(* before the addition, and a step returns 18 at most.                     *)
RunStepped(r) ==
    /\ Stepped(r)
    /\ run' = [run EXCEPT !.cycles = @ + r.cycles, !.since = @ + r.cycles]

(* while cycles < cycles_per_frame / 2 { cycles += self.cpu.step(); }      *)
RunStep ==
    /\ run.i \in {1, 2}
    /\ ~panic
    /\ run.cycles < run.cycles_per_frame \div 2
    /\ \E r \in {step(Cpu)} : RunStepped(r)
    /\ ncalls' = ncalls + 1
    /\ UNCHANGED nirq

(* self.cpu.interrupt(i) once the while loop is over, and on to the next   *)
(* element with cycles = 0                                                 *)
RunInterrupt ==
    /\ run.i \in {1, 2}
    /\ ~panic
    /\ ~(run.cycles < run.cycles_per_frame \div 2)
    /\ \E r \in {interrupt(Cpu, run.i)} :
          /\ Becomes(r.st)
          /\ cycles' = r.cycles
    /\ call' = "interrupt"
    /\ arg' = run.i
    /\ instr' = NoInstruction
    /\ pre' = Cpu
    /\ mid' = Cpu
    /\ gate_hist' = GateAfterInterrupt(gate_hist, interruptable)
    /\ ncalls' = ncalls + 1
    /\ nirq' = nirq + 1
    /\ run' = [run EXCEPT !.i = @ + 1, !.cycles = 0, !.since = 0,
                          !.requests = Append(@, [vector |-> run.i, after |-> run.since])]

NextRun == RunStep \/ RunInterrupt

(* run_cpu is straight-line code on one thread: it keeps running.          *)
SpecRun == InitRun /\ [][NextRun]_vars /\ WF_vars(NextRun)

(* Every step() that completes returns 4 cycles or more; the requests made *)
(* so far are interrupt(1), then interrupt(2), one each, the loop being at *)
(* the element after them; each was made after step() calls returning      *)
(* cycles_per_frame / 2 cycles or more since the request before; and the   *)
(* while loop's count is the sum over every step() since that request.     *)
RunCpuInv ==
    /\ (call = "step" /\ ~panic) => cycles >= 4
    /\ run.i = Len(run.requests) + 1
    /\ run.i \in 1 .. 3
    /\ \A k \in DOMAIN run.requests :
          /\ run.requests[k].vector = k
          /\ run.requests[k].after >= run.cycles_per_frame \div 2
    /\ run.cycles = run.since
    /\ call = "interrupt" => (arg = run.i - 1 /\ run.cycles = 0)
    /\ call = "step" => run.i \in {1, 2}

RunCpuReturned == run.i = 3

(* C40: run_cpu returns, or a call it makes aborts, for every              *)
(* cycles_per_frame, each completed step() returning at least 4 cycles; it *)
(* requests interrupt(1) and then interrupt(2), once each, each after      *)
(* step() calls totalling at least cycles_per_frame / 2 cycles since the   *)
(* request before, and every step() is counted in the half frame it runs   *)
(* in.                                                                     *)
C40_RunCpu == []RunCpuInv /\ <>(RunCpuReturned \/ panic)

(* A call with cycles_per_frame = 33 on the program with the handlers has  *)
(* returned: both requests made, each after 16 cycles or more, both taken. *)
C40_Witness ==
    /\ RunCpuReturned /\ ~panic
    /\ run.cycles_per_frame = 33
    /\ Len(run.requests) = 2
    /\ run.requests[1].vector = 1 /\ run.requests[1].after >= 16
    /\ run.requests[2].vector = 2 /\ run.requests[2].after >= 16
    /\ gate_hist.serviced >= 1
    /\ ncalls >= 6

====
